---- MODULE Spec2Model ----
(***************************************************************************)
(* monoup: the build scheduler (core/build), the version propagation       *)
(* engine (core/version) and the publisher (core/publish), modelled from   *)
(* the TypeScript sources.                                                 *)
(*                                                                         *)
(* Nine specifications share the module.  SpecBuild runs one `monoup build` *)
(* over a workspace of three packages; SpecOrdered is its ordered mode      *)
(* under the runtime's scheduling; SpecVersion runs one `monoup version`    *)
(* over a root package and two workspace packages, SpecTwice runs it a      *)
(* second time with the same arguments, and SpecCollect follows its         *)
(* collection of dependents call by call; SpecFunctions applies             *)
(* calculateTargetVersion and compareVersions to version strings and        *)
(* SpecCompare applies compareVersions along a chain of three versions;     *)
(* SpecPublish runs one `monoup publish` over three workspace packages;     *)
(* SpecSession calls version() and then publish() in one process.           *)
(***************************************************************************)
EXTENDS Integers, Sequences, FiniteSets, TLC

VARIABLES
  \* ---- build command ----
  pkgDeps,          \* package -> scope-matching keys of its `dependencies`
  outcome,          \* package -> TRUE when buildPackage resolves, FALSE when it throws
  cfg,              \* [typescript: BOOLEAN, package: name or None]
  phase,            \* "start" | "sorted" | "running" | "done"
  packages,         \* the sorted package list handed to buildAll
  dependencyGraph,  \* buildAll's dependencyGraph map
  status,           \* package -> "idle" | "waiting" | "building" | "success" | "failed"
  builtPackages,    \* buildAll's builtPackages set
  failed,           \* buildAll's failed flag
  builtCount,       \* buildAll's builtCount
  exitCode,         \* None until process.exit, then 0 or 1
  errorPkg,         \* package named by the circular-dependency error, or None
  \* ---- version command ----
  vDisk,            \* package -> its manifest on disk: [version, deps]
  vDisk0,           \* the manifests as they were when the command started
  vArg,             \* the versionArg of the command line
  vCfg,             \* [package: name or None, monorepo: BOOLEAN]
  vPhase,           \* "start" | "update" | "rewrite" | "done"
  vExit,            \* None until the process ends, then 0 or 1
  targetVersion,    \* version()'s targetVersion
  packagesToUpdate, \* version()'s packagesToUpdate, in insertion order
  vIdx,             \* position of the running forEach
  versionChanges,   \* version()'s versionChanges map
  vLog,             \* the log entries emitted
  vWritten,         \* the packages whose manifest was written
  vRun,             \* 1 during the first run of the command, 2 during a second one
  \* ---- version functions applied on their own ----
  fCur,             \* a version string: currentVersion, version1
  fOther,           \* a second version string: version2
  fArg,             \* the bump keyword handed to calculateTargetVersion
  fTag,             \* options.tag
  fThird,           \* a third version string compared with the two
  fPhase,           \* "input" | "calculated" | "compared" | "chained"
  fTarget,          \* what calculateTargetVersion returned
  fCmp,             \* what compareVersions returned
  fOrder,           \* what compareVersions returned along a chain of three versions
  \* ---- publish command ----
  pVersion,         \* package -> the version of its manifest
  pRootVersion,     \* the version of the root manifest
  pRegistry,        \* package -> what `npm view <name> version` prints, None when it fails
  pPublishOk,       \* package -> TRUE when `npm publish` succeeds, FALSE when it throws
  pCfg,             \* [package: name or None]
  pPhase,           \* "start" | "loop" | "summary" | "done"
  pTargets,         \* publish()'s targetPackages
  pIdx,             \* position of the for loop over targetPackages
  publishedCount,   \* publish()'s publishedCount
  pFailed,          \* publish()'s failed flag
  pExit,            \* None until the process ends, then 0 or 1
  pAttempted,       \* the packages publishPackage was called for, in call order
  pSent,            \* the packages `npm publish` was run for, in call order
  pSummary,         \* the closing log line, None before it
  \* ---- one process calling version() and then publish() ----
  diskVersion,      \* package -> the version of its manifest on disk
  packageInfoCache, \* package -> the version of its cached manifest, Absent when not cached
  sPackage,         \* options.package of the version() call, or None
  sTarget,          \* version()'s targetVersion
  sUpdate,          \* version()'s packagesToUpdate, in insertion order
  sPhase,           \* "version" | "update" | "publish" | "loop" | "done"
  sIdx,             \* position of the running loop
  sWritten,         \* the packages whose manifest version() rewrote
  sRead,            \* package -> the pkgInfo.version publish()'s loop got, Absent before
  sSkipped,         \* the packages publish()'s version check skipped
  \* ---- version(): the collection of dependents, call by call ----
  processedPackages, \* version()'s processedPackages
  cStack,           \* the running calls of collectDependentPackages, innermost last:
                    \* [dir, pos], pos = 0 on entry, else the forEach position
  cRuns             \* package -> how many calls went past the processedPackages guard

bvars == <<pkgDeps, outcome, cfg, phase, packages, dependencyGraph, status,
           builtPackages, failed, builtCount, exitCode, errorPkg>>

vvars == <<vDisk, vDisk0, vArg, vCfg, vRun, vPhase, vExit, targetVersion,
           packagesToUpdate, vIdx, versionChanges, vLog, vWritten>>

fvars == <<fCur, fOther, fThird, fArg, fTag, fPhase, fTarget, fCmp, fOrder>>

pvars == <<pVersion, pRootVersion, pRegistry, pPublishOk, pCfg, pPhase, pTargets,
           pIdx, publishedCount, pFailed, pExit, pAttempted, pSent, pSummary>>

svars == <<diskVersion, packageInfoCache, sPackage, sTarget, sUpdate, sPhase, sIdx,
           sWritten, sRead, sSkipped>>

cvars == <<processedPackages, cStack, cRuns>>

vars == <<bvars, vvars, fvars, pvars, svars, cvars>>

None == "none"

(***************************************************************************)
(* The workspace of the build command.  Package names are scope-stripped;  *)
(* a package's path and its name stand for each other (packageNameMap is a *)
(* bijection).  Ghost is a name under the workspace scope that no package  *)
(* of the workspace carries.                                               *)
(***************************************************************************)
Pkgs == {"a", "b", "c"}

Ghost == "g"

DepNames == Pkgs \cup {Ghost}

\* Object.keys order of a manifest's dependencies: alphabetical, as npm writes it.
NameOrder == <<"a", "b", "c", "g">>

\* readdirSync order of the package directories.
Discovered == <<"a", "b", "c">>

\* Most `dependencies` keys under the workspace scope a manifest declares.
MaxDeps == 2

InOrder(S) == SelectSeq(NameOrder, LAMBDA n : n \in S)

Max(x, y) == IF x >= y THEN x ELSE y

(***************************************************************************)
(* core/utils/package.ts                                                   *)
(***************************************************************************)

\* getPackageDependencies: the keys under the scope, scope stripped; no
\* filtering by workspace membership.
getPackageDependencies(p) == InOrder(pkgDeps[p])

\* One call of calculateDepth and its loop over the dependencies, threading
\* the closure's temp, visited and depthMap.  st.err is the package named by
\* the thrown error (None while nothing was thrown); st.ret is the value
\* returned by the last completed call.
RECURSIVE calculateDepth(_, _), depthLoop(_, _, _)
calculateDepth(pkgName, st) ==
  IF st.err # None THEN st
  ELSE IF pkgName \notin Pkgs THEN [st EXCEPT !.ret = 0]
  ELSE IF pkgName \in st.temp THEN [st EXCEPT !.err = pkgName]
  ELSE IF pkgName \in st.visited THEN [st EXCEPT !.ret = st.depthMap[pkgName]]
  ELSE LET entered == [st EXCEPT !.temp = @ \cup {pkgName}]
           after == depthLoop(getPackageDependencies(pkgName), entered, 0)
       IN IF after.err # None THEN after
          ELSE [after EXCEPT !.temp = @ \ {pkgName},
                             !.visited = @ \cup {pkgName},
                             !.depthMap = [@ EXCEPT ![pkgName] = after.ret + 1],
                             !.ret = after.ret + 1]

\* for (const dep of deps): returns the state with ret = maxDepth.
depthLoop(deps, st, maxDepth) ==
  IF st.err # None THEN st
  ELSE IF deps = <<>> THEN [st EXCEPT !.ret = maxDepth]
  ELSE IF Head(deps) \in Pkgs
       THEN LET r == calculateDepth(Head(deps), st)
            IN depthLoop(Tail(deps), r, Max(maxDepth, r.ret))
       ELSE depthLoop(Tail(deps), st, maxDepth)

\* calculateDepth started from the first package only.
DepthRootsFirstOnly(paths) == <<Head(paths)>>

\* The packages calculateDepth is started from: every key of packagesMap.
DepthRoots(paths) == paths

\* for (const pkgName of packagesMap.keys()) if (!visited.has(pkgName)) ...
RECURSIVE depthAll(_, _)
depthAll(roots, st) ==
  IF st.err # None \/ roots = <<>> THEN st
  ELSE depthAll(Tail(roots),
                IF Head(roots) \in st.visited THEN st
                ELSE calculateDepth(Head(roots), st))

DepthStart == [temp |-> {}, visited |-> {}, depthMap |-> [p \in Pkgs |-> 0],
               err |-> None, ret |-> 0]

\* The comparator looking at the depth only.
SortCompareDepthOnly(depthMap, x, y) == depthMap[x] - depthMap[y]

\* The sort comparator: dependency count first, then depth.
SortCompare(depthMap, x, y) ==
  LET depsA == Len(getPackageDependencies(x))
      depsB == Len(getPackageDependencies(y))
  IN IF depsA # depsB THEN depsA - depsB
     ELSE depthMap[x] - depthMap[y]

\* An insertion that puts x before the elements it ties with.
RECURSIVE InsertSortedBeforeTies(_, _, _)
InsertSortedBeforeTies(depthMap, x, sorted) ==
  IF sorted = <<>> THEN <<x>>
  ELSE IF SortCompare(depthMap, Head(sorted), x) < 0
       THEN <<Head(sorted)>> \o InsertSortedBeforeTies(depthMap, x, Tail(sorted))
       ELSE <<x>> \o sorted

\* Array.prototype.sort is stable: x goes after every element not greater.
RECURSIVE InsertSorted(_, _, _)
InsertSorted(depthMap, x, sorted) ==
  IF sorted = <<>> THEN <<x>>
  ELSE IF SortCompare(depthMap, Head(sorted), x) <= 0
       THEN <<Head(sorted)>> \o InsertSorted(depthMap, x, Tail(sorted))
       ELSE <<x>> \o sorted

RECURSIVE StableSort(_, _)
StableSort(depthMap, s) ==
  IF s = <<>> THEN <<>>
  ELSE InsertSorted(depthMap, s[Len(s)], StableSort(depthMap, SubSeq(s, 1, Len(s) - 1)))

\* sortPackagesByDependencies: [err, sorted].
sortPackagesByDependencies(paths) ==
  LET d == depthAll(DepthRoots(paths), DepthStart)
  IN [err |-> d.err,
      sorted |-> IF d.err # None THEN <<>> ELSE StableSort(d.depthMap, paths)]

(***************************************************************************)
(* core/build: buildAll                                                    *)
(***************************************************************************)

FlatMode == ~cfg.typescript \/ cfg.package # None

\* Flat mode: the packages the loop does not `continue` past.
Eligible(p) == cfg.package = None \/ p = cfg.package

\* Flat mode gating each package on its dependencies, as ordered mode does.
FlatDispatchGated(p) ==
  IF ~Eligible(p) THEN "idle"
  ELSE IF pkgDeps[p] \cap Pkgs # {} THEN "waiting" ELSE "building"

\* Flat mode: build() is called for every eligible package in the one loop.
FlatDispatch(p) == IF Eligible(p) THEN "building" ELSE "idle"

\* Ordered mode recording every dependency that is a package of the build,
\* as if packageNameMap were complete before the loop.
GraphDepsOfWholeMap(pkgs, i) ==
  {d \in pkgDeps[pkgs[i]] : \E j \in 1..Len(pkgs) : pkgs[j] = d}

\* Ordered mode: the deps recorded for packages[i].  packageNameMap holds
\* only the packages already iterated (packages[i] included).
GraphDeps(pkgs, i) ==
  {d \in pkgDeps[pkgs[i]] : \E j \in 1..i : pkgs[j] = d}

\* The wave analysis: TRUE when some wave is empty (the circular exit).
RECURSIVE WaveStuck(_, _)
WaveStuck(graph, remaining) ==
  IF remaining = {} THEN FALSE
  ELSE LET group == {p \in remaining : graph[p] \cap remaining = {}}
       IN IF group = {} THEN TRUE ELSE WaveStuck(graph, remaining \ group)

\* A guard that waits for its dependencies whatever the failed flag says.
GuardWaitsForDependencies(p) == dependencyGraph[p] \ builtPackages # {}

\* buildOne's while condition.
GuardWaits(p) == (dependencyGraph[p] \ builtPackages # {}) /\ ~failed

\* Concluding as soon as one task has settled.
AnySettled == \E p \in Pkgs : status[p] \in {"success", "failed"}

\* await Promise.all(ps): every dispatched task has settled.
AllSettled == \A p \in Pkgs : status[p] \notin {"waiting", "building"}

\* Failing the run only when nothing at all was built.
FinalExitUnlessBuilt == IF failed /\ builtCount = 0 THEN 1 ELSE 0

\* The exit code the run ends with once the tasks settled.
FinalExit == IF failed THEN 1 ELSE 0

\* A build() whose failed compile sends the package back to its guard.
BuildResultRetried(p) == IF outcome[p] THEN "success" ELSE "waiting"

\* build(): the package's state once buildPackage has resolved or thrown.
BuildResult(p) == IF outcome[p] THEN "success" ELSE "failed"

\* A .then callback that leaves the failed flag alone.
ThenFailedNever(res) == failed

\* The .then callback of flat mode and of ordered mode.
ThenFailed(res) == IF res THEN failed ELSE TRUE

\* The version command is not running.
VersionIdle ==
  /\ vDisk = <<>>
  /\ vDisk0 = <<>>
  /\ vArg = <<>>
  /\ vCfg = None
  /\ vRun = 0
  /\ vPhase = "idle"
  /\ vExit = None
  /\ targetVersion = <<>>
  /\ packagesToUpdate = <<>>
  /\ vIdx = 0
  /\ versionChanges = <<>>
  /\ vLog = {}
  /\ vWritten = {}

\* No version function is being applied.
NoOrder == [back |-> 0, next |-> 0, far |-> 0]

FunctionsIdle ==
  /\ fCur = <<>>
  /\ fOther = <<>>
  /\ fThird = <<>>
  /\ fOrder = NoOrder
  /\ fArg = <<>>
  /\ fTag = <<>>
  /\ fPhase = "idle"
  /\ fTarget = <<>>
  /\ fCmp = 0

\* The publish command is not running.
PublishIdle ==
  /\ pVersion = <<>>
  /\ pRootVersion = <<>>
  /\ pRegistry = <<>>
  /\ pPublishOk = <<>>
  /\ pCfg = None
  /\ pPhase = "idle"
  /\ pTargets = <<>>
  /\ pIdx = 0
  /\ publishedCount = 0
  /\ pFailed = FALSE
  /\ pExit = None
  /\ pAttempted = <<>>
  /\ pSent = <<>>
  /\ pSummary = None

\* No version()-then-publish() session is running.
SessionIdle ==
  /\ diskVersion = <<>>
  /\ packageInfoCache = <<>>
  /\ sPackage = None
  /\ sTarget = <<>>
  /\ sUpdate = <<>>
  /\ sPhase = "idle"
  /\ sIdx = 0
  /\ sWritten = {}
  /\ sRead = <<>>
  /\ sSkipped = {}

\* No collection of dependents is being followed call by call.
CollectIdle ==
  /\ processedPackages = {}
  /\ cStack = <<>>
  /\ cRuns = <<>>

\* The build command is not running.
BuildIdle ==
  /\ pkgDeps = <<>>
  /\ outcome = <<>>
  /\ cfg = None
  /\ phase = "idle"
  /\ packages = <<>>
  /\ dependencyGraph = <<>>
  /\ status = <<>>
  /\ builtPackages = {}
  /\ failed = FALSE
  /\ builtCount = 0
  /\ exitCode = None
  /\ errorPkg = None

(***************************************************************************)
(* Build command: initial states                                           *)
(***************************************************************************)
InitBuild ==
  /\ pkgDeps \in [Pkgs -> {S \in SUBSET DepNames : Cardinality(S) <= MaxDeps}]
  /\ outcome \in [Pkgs -> BOOLEAN]
  /\ cfg \in [typescript : BOOLEAN, package : {None, "b"}]
  /\ phase = "start"
  /\ packages = <<>>
  /\ dependencyGraph = [p \in Pkgs |-> {}]
  /\ status = [p \in Pkgs |-> "idle"]
  /\ builtPackages = {}
  /\ failed = FALSE
  /\ builtCount = 0
  /\ exitCode = None
  /\ errorPkg = None
  /\ VersionIdle
  /\ FunctionsIdle
  /\ PublishIdle
  /\ SessionIdle
  /\ CollectIdle

(***************************************************************************)
(* Build command: actions                                                  *)
(***************************************************************************)

\* build(): sortPackagesByDependencies returns.
SortPackages ==
  /\ phase = "start"
  /\ LET r == sortPackagesByDependencies(Discovered)
     IN /\ r.err = None
        /\ packages' = r.sorted
  /\ phase' = "sorted"
  /\ UNCHANGED <<pkgDeps, outcome, cfg, dependencyGraph, status, builtPackages,
                 failed, builtCount, exitCode, errorPkg,
                 vvars, fvars, pvars, svars, cvars>>

\* build(): sortPackagesByDependencies throws; the CLI's catch logs the
\* message and exits 1.
SortCircular ==
  /\ phase = "start"
  /\ LET r == sortPackagesByDependencies(Discovered)
     IN /\ r.err # None
        /\ errorPkg' = r.err
  /\ phase' = "done"
  /\ exitCode' = 1
  /\ UNCHANGED <<pkgDeps, outcome, cfg, packages, dependencyGraph, status,
                 builtPackages, failed, builtCount,
                 vvars, fvars, pvars, svars, cvars>>

\* buildAll, flat mode, up to await Promise.all: every eligible package's
\* build() is called.
BuildAllFlat ==
  /\ phase = "sorted"
  /\ FlatMode
  /\ status' = [p \in Pkgs |-> FlatDispatch(p)]
  /\ phase' = "running"
  /\ UNCHANGED <<pkgDeps, outcome, cfg, packages, dependencyGraph,
                 builtPackages, failed, builtCount, exitCode, errorPkg,
                 vvars, fvars, pvars, svars, cvars>>

\* buildAll, ordered mode, up to await Promise.all: the graph, the wave
\* analysis, then buildOne() for every package.  Each buildOne runs to its
\* first await: the sleep when its guard waits, else the compile.
BuildAllOrdered ==
  /\ phase = "sorted"
  /\ ~FlatMode
  /\ LET graph == [p \in Pkgs |->
                     GraphDeps(packages, CHOOSE i \in 1..Len(packages) : packages[i] = p)]
     IN /\ dependencyGraph' = graph
        /\ IF WaveStuck(graph, Pkgs)
           THEN /\ phase' = "done"
                /\ exitCode' = 1
                /\ UNCHANGED status
           ELSE /\ phase' = "running"
                /\ UNCHANGED exitCode
                /\ status' = [p \in Pkgs |->
                                IF graph[p] # {} THEN "waiting" ELSE "building"]
  /\ UNCHANGED <<pkgDeps, outcome, cfg, packages, builtPackages, failed,
                 builtCount, errorPkg,
                 vvars, fvars, pvars, svars, cvars>>

\* A sleeping buildOne wakes, finds its while condition false and calls build().
Poll(p) ==
  /\ phase = "running"
  /\ status[p] = "waiting"
  /\ ~GuardWaits(p)
  /\ status' = [status EXCEPT ![p] = "building"]
  /\ UNCHANGED <<pkgDeps, outcome, cfg, phase, packages, dependencyGraph,
                 builtPackages, failed, builtCount, exitCode, errorPkg,
                 vvars, fvars, pvars, svars, cvars>>

\* build(p) settles and its .then callback runs.
CompileDone(p) ==
  /\ phase = "running"
  /\ status[p] = "building"
  /\ status' = [status EXCEPT ![p] = BuildResult(p)]
  /\ builtCount' = IF outcome[p] THEN builtCount + 1 ELSE builtCount
  /\ builtPackages' = IF outcome[p] /\ ~FlatMode THEN builtPackages \cup {p}
                      ELSE builtPackages
  /\ failed' = ThenFailed(outcome[p])
  /\ UNCHANGED <<pkgDeps, outcome, cfg, phase, packages, dependencyGraph,
                 exitCode, errorPkg,
                 vvars, fvars, pvars, svars, cvars>>

\* Promise.all resolves; buildAll exits 1 or returns true and build() exits 0.
Finish ==
  /\ phase = "running"
  /\ AllSettled
  /\ phase' = "done"
  /\ exitCode' = FinalExit
  /\ UNCHANGED <<pkgDeps, outcome, cfg, packages, dependencyGraph, status,
                 builtPackages, failed, builtCount, errorPkg,
                 vvars, fvars, pvars, svars, cvars>>

NextBuild ==
  \/ SortPackages
  \/ SortCircular
  \/ BuildAllFlat
  \/ BuildAllOrdered
  \/ \E p \in Pkgs : Poll(p)
  \/ \E p \in Pkgs : CompileDone(p)
  \/ Finish

SpecBuild == InitBuild /\ [][NextBuild]_vars

(***************************************************************************)
(* buildAll in ordered mode, with the scheduling the runtime gives: the    *)
(* synchronous dispatch runs on, a 200ms timer fires, a settled promise's  *)
(* callback runs, and every compile call returns.                          *)
(***************************************************************************)
InitOrdered ==
  /\ InitBuild
  /\ cfg = [typescript |-> TRUE, package |-> None]

NextOrdered ==
  \/ SortPackages
  \/ SortCircular
  \/ BuildAllOrdered
  \/ \E p \in Pkgs : Poll(p)
  \/ \E p \in Pkgs : CompileDone(p)
  \/ Finish

SpecOrdered ==
  /\ InitOrdered
  /\ [][NextOrdered]_vars
  /\ WF_vars(BuildAllOrdered)
  /\ \A p \in Pkgs : WF_vars(Poll(p))
  /\ \A p \in Pkgs : WF_vars(CompileDone(p))
  /\ WF_vars(Finish)

(***************************************************************************)
(* Strings.  A string is the sequence of its characters, so that parsing,  *)
(* formatting and comparing are computed character by character.           *)
(***************************************************************************)
Digits == {"0", "1", "2", "3", "4", "5", "6", "7", "8", "9"}

Letters == {"a", "b", "e", "h", "l", "p", "t"}

\* The character class [0-9A-Za-z-] of the version grammar.
IdentChars == Digits \cup Letters \cup {"-"}

DigitVal(c) ==
  CASE c = "0" -> 0 [] c = "1" -> 1 [] c = "2" -> 2 [] c = "3" -> 3
    [] c = "4" -> 4 [] c = "5" -> 5 [] c = "6" -> 6 [] c = "7" -> 7
    [] c = "8" -> 8 [] c = "9" -> 9

DigitChar(n) ==
  CASE n = 0 -> "0" [] n = 1 -> "1" [] n = 2 -> "2" [] n = 3 -> "3"
    [] n = 4 -> "4" [] n = 5 -> "5" [] n = 6 -> "6" [] n = 7 -> "7"
    [] n = 8 -> "8" [] n = 9 -> "9"

\* UTF-16 code unit of a character, the order JavaScript compares strings by.
CharCode(c) ==
  CASE c \in Digits -> 48 + DigitVal(c)
    [] c = "+" -> 43 [] c = "-" -> 45 [] c = "." -> 46
    [] c = "^" -> 94 [] c = "~" -> 126
    [] c = "a" -> 97 [] c = "b" -> 98 [] c = "e" -> 101 [] c = "h" -> 104
    [] c = "l" -> 108 [] c = "p" -> 112 [] c = "t" -> 116

\* a < b on strings.
RECURSIVE StrLess(_, _)
StrLess(a, b) ==
  IF b = <<>> THEN FALSE
  ELSE IF a = <<>> THEN TRUE
  ELSE IF Head(a) # Head(b) THEN CharCode(Head(a)) < CharCode(Head(b))
  ELSE StrLess(Tail(a), Tail(b))

\* s.indexOf(c) + 1: 0 when c does not occur.
IndexOf(s, c) ==
  IF \E i \in 1..Len(s) : s[i] = c
  THEN CHOOSE i \in 1..Len(s) : s[i] = c /\ \A j \in 1..(i - 1) : s[j] # c
  ELSE 0

\* s.split(c)
RECURSIVE Split(_, _)
Split(s, c) ==
  LET i == IndexOf(s, c)
  IN IF i = 0 THEN <<s>>
     ELSE <<SubSeq(s, 1, i - 1)>> \o Split(SubSeq(s, i + 1, Len(s)), c)

\* parts.join(c)
RECURSIVE Join(_, _)
Join(parts, c) ==
  IF parts = <<>> THEN <<>>
  ELSE IF Len(parts) = 1 THEN parts[1]
  ELSE parts[1] \o <<c>> \o Join(Tail(parts), c)

\* /^\d+$/
IsDigits(s) == s # <<>> /\ \A i \in 1..Len(s) : s[i] \in Digits

\* [0-9A-Za-z-]+
IsIdent(s) == s # <<>> /\ \A i \in 1..Len(s) : s[i] \in IdentChars

\* [0-9A-Za-z-]+(?:\.[0-9A-Za-z-]+)*
IsIdentList(s) == \A i \in 1..Len(Split(s, ".")) : IsIdent(Split(s, ".")[i])

\* Value of a string of digits.
RECURSIVE DigitsValue(_)
DigitsValue(s) ==
  IF s = <<>> THEN 0
  ELSE 10 * DigitsValue(SubSeq(s, 1, Len(s) - 1)) + DigitVal(s[Len(s)])

\* The longest prefix of s made of digits.
RECURSIVE DigitPrefix(_)
DigitPrefix(s) ==
  IF s = <<>> \/ Head(s) \notin Digits THEN <<>>
  ELSE <<Head(s)>> \o DigitPrefix(Tail(s))

\* parseInt(s, 10) on a string free of white space: an optional sign, then
\* the leading digits; NaN (isNaN) when there are none.
parseInt(s) ==
  LET neg == s # <<>> /\ Head(s) = "-"
      body == IF s # <<>> /\ Head(s) \in {"-", "+"} THEN Tail(s) ELSE s
      ds == DigitPrefix(body)
  IN IF ds = <<>> THEN [isNaN |-> TRUE, val |-> 0]
     ELSE [isNaN |-> FALSE,
           val |-> IF neg THEN 0 - DigitsValue(ds) ELSE DigitsValue(ds)]

\* Number.prototype.toString of a natural number.
RECURSIVE toString(_)
toString(n) ==
  IF n < 10 THEN <<DigitChar(n)>>
  ELSE toString(n \div 10) \o <<DigitChar(n % 10)>>

(***************************************************************************)
(* core/version: versions                                                  *)
(***************************************************************************)

\* parseVersion's null.
Null == [valid |-> FALSE, major |-> 0, minor |-> 0, patch |-> 0,
         prerelease |-> <<>>, build |-> <<>>]

\* parseVersion.  The regular expression admits one reading of a string: the
\* build part starts at the first "+", the prerelease at the first "-" before
\* it, and what precedes is three dot-separated digit strings.
parseVersion(version) ==
  LET plus == IndexOf(version, "+")
      main == IF plus = 0 THEN version ELSE SubSeq(version, 1, plus - 1)
      build == IF plus = 0 THEN <<>> ELSE SubSeq(version, plus + 1, Len(version))
      dash == IndexOf(main, "-")
      core == IF dash = 0 THEN main ELSE SubSeq(main, 1, dash - 1)
      pre == IF dash = 0 THEN <<>> ELSE SubSeq(main, dash + 1, Len(main))
      nums == Split(core, ".")
  IN IF /\ Len(nums) = 3
        /\ \A i \in 1..3 : IsDigits(nums[i])
        /\ (dash # 0 => IsIdentList(pre))
        /\ (plus # 0 => IsIdentList(build))
     THEN [valid |-> TRUE,
           major |-> DigitsValue(nums[1]),
           minor |-> DigitsValue(nums[2]),
           patch |-> DigitsValue(nums[3]),
           prerelease |-> pre,
           build |-> build]
     ELSE Null

isValidSemVer(version) == parseVersion(version).valid

StartsWith(s, t) == Len(s) >= Len(t) /\ SubSeq(s, 1, Len(t)) = t

\* incrementPrerelease leaving a trailing number as it is.
incrementPrereleaseSameNumber(prerelease, tag) ==
  LET parts == Split(prerelease, ".")
      lastPart == parts[Len(parts)]
  IN IF prerelease = <<>> THEN tag \o <<".", "0">>
     ELSE IF ~StartsWith(prerelease, tag) THEN tag \o <<".", "0">>
     ELSE IF IsDigits(lastPart) THEN prerelease
          ELSE Join(parts \o << <<"0">> >>, ".")

\* incrementPrerelease
incrementPrerelease(prerelease, tag) ==
  LET parts == Split(prerelease, ".")
      lastPart == parts[Len(parts)]
  IN IF prerelease = <<>> THEN tag \o <<".", "0">>
     ELSE IF ~StartsWith(prerelease, tag) THEN tag \o <<".", "0">>
     ELSE IF IsDigits(lastPart)
          THEN Join([parts EXCEPT ![Len(parts)] = toString(DigitsValue(lastPart) + 1)], ".")
          ELSE Join(parts \o << <<"0">> >>, ".")

\* The loop of compareVersions over the prerelease identifiers, from index i.
RECURSIVE comparePre(_, _, _)
comparePre(pre1, pre2, i) ==
  IF i > Max(Len(pre1), Len(pre2)) THEN 0
  ELSE IF i > Len(pre1) THEN -1
  ELSE IF i > Len(pre2) THEN 1
  ELSE LET a == pre1[i]
           b == pre2[i]
           aNum == parseInt(a)
           bNum == parseInt(b)
       IN IF ~aNum.isNaN /\ ~bNum.isNaN
          THEN IF aNum.val # bNum.val THEN aNum.val - bNum.val
               ELSE comparePre(pre1, pre2, i + 1)
          ELSE IF StrLess(a, b) THEN -1
          ELSE IF StrLess(b, a) THEN 1
          ELSE comparePre(pre1, pre2, i + 1)

\* compareVersions
compareVersions(version1, version2) ==
  LET v1 == parseVersion(version1)
      v2 == parseVersion(version2)
  IN IF ~v1.valid \/ ~v2.valid THEN 0
     ELSE IF v1.major # v2.major THEN v1.major - v2.major
     ELSE IF v1.minor # v2.minor THEN v1.minor - v2.minor
     ELSE IF v1.patch # v2.patch THEN v1.patch - v2.patch
     ELSE IF v1.prerelease = <<>> /\ v2.prerelease # <<>> THEN 1
     ELSE IF v1.prerelease # <<>> /\ v2.prerelease = <<>> THEN -1
     ELSE IF v1.prerelease = <<>> /\ v2.prerelease = <<>> THEN 0
     ELSE comparePre(Split(v1.prerelease, "."), Split(v2.prerelease, "."), 1)

KwMajor == <<"m", "a", "j", "o", "r">>
KwMinor == <<"m", "i", "n", "o", "r">>
KwPatch == <<"p", "a", "t", "c", "h">>
KwPre == <<"p", "r", "e">>
KwPrePatch == KwPre \o <<"-">> \o KwPatch
KwPreMinor == KwPre \o <<"-">> \o KwMinor
KwPreMajor == KwPre \o <<"-">> \o KwMajor

\* The bump keywords tested by version().
Keywords == {KwMajor, KwMinor, KwPatch, KwPre, KwPrePatch, KwPreMinor, KwPreMajor}

\* options.tag || 'alpha'
DefaultTag == <<"a", "l", "p", "h", "a">>

\* `${major}.${minor}.${patch}`
Triple(major, minor, patch) ==
  toString(major) \o <<".">> \o toString(minor) \o <<".">> \o toString(patch)

\* case 'patch' always moving to the next patch number.
patchTargetAlwaysNext(cur) == Triple(cur.major, cur.minor, cur.patch + 1)

\* case 'patch' of calculateTargetVersion
patchTarget(cur) ==
  IF cur.prerelease # <<>>
  THEN Triple(cur.major, cur.minor, cur.patch)
  ELSE Triple(cur.major, cur.minor, cur.patch + 1)

\* case 'pre' keeping the patch number of a release.
preTargetSamePatch(cur, tag) ==
  IF cur.prerelease # <<>>
  THEN Triple(cur.major, cur.minor, cur.patch) \o <<"-">>
         \o incrementPrerelease(cur.prerelease, tag)
  ELSE Triple(cur.major, cur.minor, cur.patch) \o <<"-">> \o tag \o <<".", "0">>

\* case 'pre' of calculateTargetVersion
preTarget(cur, tag) ==
  IF cur.prerelease # <<>>
  THEN Triple(cur.major, cur.minor, cur.patch) \o <<"-">>
         \o incrementPrerelease(cur.prerelease, tag)
  ELSE Triple(cur.major, cur.minor, cur.patch + 1) \o <<"-">> \o tag \o <<".", "0">>

\* The return dropping the build metadata.
withBuildDropped(bumped, build) == bumped

\* build ? `${targetVersion}+${build}` : targetVersion
withBuild(bumped, build) ==
  IF build # <<>> THEN bumped \o <<"+">> \o build ELSE bumped

\* calculateTargetVersion
calculateTargetVersion(versionArg, cur, tag) ==
  LET tag0 == <<"-">> \o tag \o <<".", "0">>
      bumped ==
        CASE versionArg = KwMajor -> Triple(cur.major + 1, 0, 0)
          [] versionArg = KwMinor -> Triple(cur.major, cur.minor + 1, 0)
          [] versionArg = KwPatch -> patchTarget(cur)
          [] versionArg = KwPre -> preTarget(cur, tag)
          [] versionArg = KwPrePatch -> Triple(cur.major, cur.minor, cur.patch + 1) \o tag0
          [] versionArg = KwPreMinor -> Triple(cur.major, cur.minor + 1, 0) \o tag0
          [] versionArg = KwPreMajor -> Triple(cur.major + 1, 0, 0) \o tag0
          [] OTHER -> versionArg
  IN withBuild(bumped, cur.build)

\* (version as string).match(/^[~^]/)?.[0] || ''
RangePrefix(range) ==
  IF range # <<>> /\ Head(range) \in {"~", "^"} THEN <<Head(range)>> ELSE <<>>

\* (version as string).replace(/^[~^]/, '')
StripPrefix(range) ==
  IF range # <<>> /\ Head(range) \in {"~", "^"} THEN Tail(range) ELSE range

(***************************************************************************)
(* core/version: the version command                                       *)
(*                                                                         *)
(* The workspace is the root package and two packages under packagesDir.   *)
(* A manifest is [version, deps]; deps[field][name] is the declared range, *)
(* or Absent when the field has no such key.                               *)
(***************************************************************************)
VPkgs == {"root", "a", "b"}

\* [rootDir, ...readdirSync(packagesDir)]
AllPackageDirs == <<"root", "a", "b">>

Fields == <<"dependencies", "peerDependencies", "devDependencies">>

FieldSet == {Fields[i] : i \in 1..Len(Fields)}

\* A key the object does not have (reads as undefined).
Absent == <<"undefined">>

\* JavaScript truthiness of a declared range: present and not the empty string.
Truthy(range) == range # Absent /\ range # <<>>

\* Largest patch number among the manifest versions of the initial workspace.
MaxPatch == 1

BuildB == <<"+", "b">>

\* Versions the manifests start with.
VersionPool ==
  {Triple(1, 0, n) : n \in 0..MaxPatch} \cup {Triple(1, 0, 0) \o BuildB}

\* A string outside the version grammar.
InvalidVersion == <<"1", ".", "0">>

\* The versionArg values tried: a keyword, a valid explicit version, and a
\* string that is neither.
VersionArgs == {KwPatch, Triple(1, 0, 0), InvalidVersion}

\* The (dependent, dependency) pairs that may carry a declaration.
DeclPairs == {<<"b", "a">>, <<"root", "b">>, <<"a", "a">>}

NoDecl == [field |-> None, range |-> Absent]

\* The declarations a pair may carry: every field, every prefix shape, and
\* the empty range.
DeclKinds ==
  {NoDecl,
   [field |-> "dependencies", range |-> <<"^">> \o Triple(1, 0, 0)],
   [field |-> "peerDependencies", range |-> <<"~">> \o Triple(1, 0, 1)],
   [field |-> "devDependencies", range |-> Triple(1, 0, 0)],
   [field |-> "dependencies", range |-> <<>>]}

\* The packages array of version().
VPackages == IF vCfg.monorepo THEN AllPackageDirs ELSE <<"root">>

SeqSet(q) == {q[i] : i \in 1..Len(q)}

\* targetPackages
TargetPackages ==
  SelectSeq(VPackages, LAMBDA d : vCfg.package = None \/ d = vCfg.package)

\* hasDepOnPackage
hasDepOnPackage(depPkg, name) ==
  \E f \in FieldSet : Truthy(vDisk[depPkg].deps[f][name])

\* collectDependentPackages and its forEach over packages.  st carries
\* processedPackages and packagesToUpdate.
RECURSIVE collectDependentPackages(_, _), collectLoop(_, _, _)
collectDependentPackages(packageDir, st) ==
  IF packageDir \in st.processed THEN st
  ELSE LET st1 == [processed |-> st.processed \cup {packageDir},
                   toUpdate |-> Append(st.toUpdate, packageDir)]
       IN IF vCfg.monorepo THEN collectLoop(packageDir, VPackages, st1) ELSE st1

collectLoop(packageDir, dirs, st) ==
  IF dirs = <<>> THEN st
  ELSE collectLoop(packageDir, Tail(dirs),
                   IF hasDepOnPackage(Head(dirs), packageDir)
                   THEN collectDependentPackages(Head(dirs), st)
                   ELSE st)

\* targetPackages.forEach(collectDependentPackages)
RECURSIVE collectAll(_, _)
collectAll(targets, st) ==
  IF targets = <<>> THEN st
  ELSE collectAll(Tail(targets), collectDependentPackages(Head(targets), st))

\* updateDependencyVersions: the package's entries under its own name.
updateDependencyVersions(deps, packageName, newVersion) ==
  [f \in FieldSet |->
     [n \in VPkgs |->
        IF n = packageName /\ Truthy(deps[f][n]) THEN newVersion ELSE deps[f][n]]]

\* updateVersion refusing to write a lower version.
updateVersionResultNoDowngrade(pkg, versionArg) ==
  IF ~isValidSemVer(versionArg) THEN "invalid"
  ELSE IF compareVersions(versionArg, pkg.version) <= 0 THEN "same"
  ELSE "write"

\* updateVersion(packageDir, versionArg, silent = true):
\* "invalid" (log, process.exit(1)), "same" (return, no write) or "write".
updateVersionResult(pkg, versionArg) ==
  IF ~isValidSemVer(versionArg) THEN "invalid"
  ELSE IF compareVersions(versionArg, pkg.version) = 0 THEN "same"
  ELSE "write"

\* The manifest updateVersion writes.
updateVersionContent(name, pkg, newVersion) ==
  [version |-> newVersion,
   deps |-> updateDependencyVersions(pkg.deps, name, newVersion)]

\* The update pass skipping a package.
AlreadySetNever(oldVersion, target) == FALSE

\* if (oldVersion === targetVersion) of the update pass.
AlreadySet(oldVersion, target) == oldVersion = target

NoChange == [set |-> FALSE, oldVersion |-> <<>>, newVersion |-> <<>>]

\* The rewrite pass writing the new version without the prefix.
RewrittenRangeBare(range, newVersion) == newVersion

\* `${range}${versionChange.newVersion}`
RewrittenRange(range, newVersion) == RangePrefix(range) \o newVersion

\* The rewrite pass on one entry of one dependency field.
RewriteEntry(range, change) ==
  IF range # Absent /\ change.set /\ StripPrefix(range) # change.newVersion
  THEN RewrittenRange(range, change.newVersion)
  ELSE range

LogEntry(pkg, kind, dep) == [pkg |-> pkg, kind |-> kind, dep |-> dep]

(***************************************************************************)
(* Version command: initial states                                         *)
(***************************************************************************)
InitVersion ==
  /\ BuildIdle
  /\ FunctionsIdle
  /\ PublishIdle
  /\ SessionIdle
  /\ CollectIdle
  /\ vCfg \in [package : {None, "a"}, monorepo : BOOLEAN]
  /\ \E ver \in [VPkgs -> VersionPool \cup {InvalidVersion}],
        decl \in [DeclPairs -> DeclKinds] :
       \* The root manifest may carry a version outside the grammar.
       /\ \A p \in VPkgs \ {"root"} : ver[p] \in VersionPool
       \* Without monorepo only the root manifest is ever read: the other
       \* directories are held fixed.
       /\ ~vCfg.monorepo =>
            /\ \A p \in VPkgs \ {"root"} : ver[p] = Triple(1, 0, 0)
            /\ \A pr \in DeclPairs : decl[pr] = NoDecl
       /\ vDisk =    [p \in VPkgs |->
                     [version |-> ver[p],
                      deps |-> [f \in FieldSet |->
                                  [n \in VPkgs |->
                                     IF <<p, n>> \in DeclPairs /\ decl[<<p, n>>].field = f
                                     THEN decl[<<p, n>>].range
                                     ELSE Absent]]]]
  /\ vDisk0 = vDisk
  /\ vArg \in VersionArgs
  /\ vRun = 1
  /\ vPhase = "start"
  /\ vExit = None
  /\ targetVersion = <<>>
  /\ packagesToUpdate = <<>>
  /\ vIdx = 0
  /\ versionChanges = [p \in VPkgs |-> NoChange]
  /\ vLog = {}
  /\ vWritten = {}

(***************************************************************************)
(* Version command: actions                                                *)
(***************************************************************************)

\* version() up to the update pass: the target version, the target
\* packages, the collection of dependents.
VersionStart ==
  /\ vPhase = "start"
  /\ LET rootCur == parseVersion(vDisk["root"].version)
         rootBad == vArg \in Keywords /\ ~rootCur.valid
         notFound == vCfg.package # None /\ TargetPackages = <<>>
     IN IF rootBad \/ notFound
        THEN /\ vPhase' = "done"
             /\ vExit' = 1
             /\ vLog' = vLog \cup {LogEntry(IF rootBad THEN "root" ELSE vCfg.package,
                                            "error", None)}
             /\ UNCHANGED <<targetVersion, packagesToUpdate, vIdx>>
        ELSE /\ targetVersion' = IF vArg \in Keywords
                                 THEN calculateTargetVersion(vArg, rootCur, DefaultTag)
                                 ELSE vArg
             /\ packagesToUpdate' =
                  collectAll(TargetPackages, [processed |-> {}, toUpdate |-> <<>>]).toUpdate
             /\ vIdx' = 1
             /\ vPhase' = "update"
             /\ UNCHANGED <<vExit, vLog>>
  /\ UNCHANGED <<vDisk, vDisk0, vArg, vCfg, vRun, versionChanges, vWritten, bvars, fvars, pvars, svars, cvars>>

\* One iteration of packagesToUpdate.forEach.
UpdateOne ==
  /\ vPhase = "update"
  /\ LET dir == packagesToUpdate[vIdx]
         pkgContent == vDisk[dir]
         oldVersion == pkgContent.version
         isDowngrade == compareVersions(targetVersion, oldVersion) < 0
         warn == IF isDowngrade THEN {LogEntry(dir, "downgraded", None)} ELSE {}
         res == updateVersionResult(pkgContent, targetVersion)
         last == vIdx = Len(packagesToUpdate)
         advance == /\ vIdx' = IF last THEN 1 ELSE vIdx + 1
                    /\ vPhase' = IF last THEN "rewrite" ELSE "update"
                    /\ UNCHANGED vExit
     IN IF AlreadySet(oldVersion, targetVersion)
        THEN /\ vLog' = vLog \cup {LogEntry(dir, "already", None)}
             /\ advance
             /\ UNCHANGED <<vDisk, versionChanges, vWritten>>
        ELSE IF res = "invalid"
        THEN /\ vLog' = vLog \cup warn \cup {LogEntry(dir, "invalid", None)}
             /\ vPhase' = "done"
             /\ vExit' = 1
             /\ UNCHANGED <<vDisk, versionChanges, vWritten, vIdx>>
        ELSE /\ vDisk' = IF res = "write"
                         THEN [vDisk EXCEPT ![dir] =
                                 updateVersionContent(dir, pkgContent, targetVersion)]
                         ELSE vDisk
             /\ vWritten' = IF res = "write" THEN vWritten \cup {dir} ELSE vWritten
             /\ versionChanges' =
                  [versionChanges EXCEPT ![dir] =
                     [set |-> TRUE, oldVersion |-> oldVersion,
                      newVersion |-> vDisk'[dir].version]]
             /\ vLog' = vLog \cup warn
                          \cup (IF isDowngrade THEN {}
                                ELSE {LogEntry(dir, "updated", None)})
             /\ advance
  /\ UNCHANGED <<vDisk0, vArg, vCfg, vRun, targetVersion, packagesToUpdate, bvars, fvars, pvars, svars, cvars>>

\* One iteration of packages.forEach of the dependency rewrite pass.
RewriteOne ==
  /\ vPhase = "rewrite"
  /\ LET dir == VPackages[vIdx]
         pkg == vDisk[dir]
         newDeps == [f \in FieldSet |->
                       [n \in VPkgs |-> RewriteEntry(pkg.deps[f][n], versionChanges[n])]]
         touched == {n \in VPkgs : \E f \in FieldSet : newDeps[f][n] # pkg.deps[f][n]}
         hasChanges == touched # {}
         last == vIdx = Len(VPackages)
     IN /\ vDisk' = [vDisk EXCEPT ![dir].deps = newDeps]
        /\ vWritten' = IF hasChanges THEN vWritten \cup {dir} ELSE vWritten
        /\ vLog' = vLog \cup
             {LogEntry(dir,
                       IF \E f \in FieldSet :
                            /\ newDeps[f][n] # pkg.deps[f][n]
                            /\ compareVersions(versionChanges[n].newVersion,
                                               StripPrefix(pkg.deps[f][n])) < 0
                       THEN "depDowngraded" ELSE "depUpdated",
                       n) : n \in touched}
        /\ vIdx' = IF last THEN vIdx ELSE vIdx + 1
        /\ vPhase' = IF last THEN "done" ELSE "rewrite"
        /\ vExit' = IF last THEN 0 ELSE vExit
  /\ UNCHANGED <<vDisk0, vArg, vCfg, vRun, targetVersion, packagesToUpdate,
                 versionChanges, bvars, fvars, pvars, svars, cvars>>

NextVersion ==
  \/ VersionStart
  \/ UpdateOne
  \/ RewriteOne

SpecVersion == InitVersion /\ [][NextVersion]_vars

(***************************************************************************)
(* The version command run twice in a row with the same explicit version   *)
(* and the same package selection.                                         *)
(***************************************************************************)
InitTwice ==
  /\ InitVersion
  /\ vArg = Triple(1, 0, 0)

\* The first run ended normally; the command is started again on the
\* workspace as the first run left it.
VersionAgain ==
  /\ vPhase = "done"
  /\ vExit = 0
  /\ vRun = 1
  /\ vRun' = 2
  /\ vDisk0' = vDisk
  /\ vPhase' = "start"
  /\ vExit' = None
  /\ targetVersion' = <<>>
  /\ packagesToUpdate' = <<>>
  /\ vIdx' = 0
  /\ versionChanges' = [p \in VPkgs |-> NoChange]
  /\ vLog' = {}
  /\ vWritten' = {}
  /\ UNCHANGED <<vDisk, vArg, vCfg, bvars, fvars, pvars, svars, cvars>>

NextTwice ==
  \/ VersionStart
  \/ UpdateOne
  \/ RewriteOne
  \/ VersionAgain

SpecTwice == InitTwice /\ [][NextTwice]_vars

(***************************************************************************)
(* version(): the collection of dependents followed call by call, over     *)
(* every shape of declarations between the three packages, cycles          *)
(* included.  The body of version() is synchronous: the runtime runs each  *)
(* call and each forEach iteration to its end.                             *)
(***************************************************************************)

\* Every ordered pair of packages, a package with itself included.
CollectPairs == VPkgs \X VPkgs

\* The declaration a pair carries when it carries one: the field and the
\* prefix vary with the declaring package.
CollectDecl(pair) ==
  IF pair[1] = "a" THEN [field |-> "dependencies", range |-> <<"^">> \o Triple(1, 0, 0)]
  ELSE IF pair[1] = "b" THEN [field |-> "peerDependencies", range |-> <<"~">> \o Triple(1, 0, 0)]
  ELSE [field |-> "devDependencies", range |-> Triple(1, 0, 0)]

\* A guard that never finds a package processed.
AlreadyProcessedNever(dir) == FALSE

\* if (processedPackages.has(pkgContent.name)) return;
AlreadyProcessed(dir) == dir \in processedPackages

\* packagesToUpdate.add(packageDir): a Set keeps insertion order and holds a
\* value once.
SetAdd(q, dir) == IF dir \in SeqSet(q) THEN q ELSE Append(q, dir)

Top == cStack[Len(cStack)]

Pop == SubSeq(cStack, 1, Len(cStack) - 1)

InitCollect ==
  /\ BuildIdle
  /\ FunctionsIdle
  /\ PublishIdle
  /\ SessionIdle
  /\ vCfg \in [package : {None, "a"}, monorepo : BOOLEAN]
  /\ \E declared \in SUBSET CollectPairs :
       vDisk = [p \in VPkgs |->
                  [version |-> Triple(1, 0, 0),
                   deps |-> [f \in FieldSet |->
                               [n \in VPkgs |->
                                  IF <<p, n>> \in declared /\ CollectDecl(<<p, n>>).field = f
                                  THEN CollectDecl(<<p, n>>).range
                                  ELSE Absent]]]]
  /\ vDisk0 = vDisk
  /\ vArg = <<>>
  /\ vRun = 1
  /\ vPhase = "collect"
  /\ vExit = None
  /\ targetVersion = <<>>
  /\ packagesToUpdate = <<>>
  /\ vIdx = 1
  /\ versionChanges = <<>>
  /\ vLog = {}
  /\ vWritten = {}
  /\ processedPackages = {}
  /\ cStack = <<>>
  /\ cRuns = [p \in VPkgs |-> 0]

\* targetPackages.forEach(collectDependentPackages): the next target's call
\* is entered; after the last one the update pass begins.
CollectNextTarget ==
  /\ vPhase = "collect"
  /\ cStack = <<>>
  /\ IF vIdx <= Len(TargetPackages)
     THEN /\ cStack' = <<[dir |-> TargetPackages[vIdx], pos |-> 0]>>
          /\ vIdx' = vIdx + 1
          /\ UNCHANGED vPhase
     ELSE /\ vPhase' = "collected"
          /\ UNCHANGED <<cStack, vIdx>>
  /\ UNCHANGED <<vDisk, vDisk0, vArg, vCfg, vRun, vExit, targetVersion, packagesToUpdate,
                 versionChanges, vLog, vWritten, processedPackages, cRuns,
                 bvars, fvars, pvars, svars>>

\* A call of collectDependentPackages up to its forEach: the guard returns,
\* or the package is recorded and, in a monorepo, the forEach begins.
CollectEnter ==
  /\ vPhase = "collect"
  /\ cStack # <<>>
  /\ Top.pos = 0
  /\ IF AlreadyProcessed(Top.dir)
     THEN /\ cStack' = Pop
          /\ UNCHANGED <<processedPackages, packagesToUpdate, cRuns>>
     ELSE /\ processedPackages' = processedPackages \cup {Top.dir}
          /\ packagesToUpdate' = SetAdd(packagesToUpdate, Top.dir)
          /\ cRuns' = [cRuns EXCEPT ![Top.dir] = @ + 1]
          /\ cStack' = IF vCfg.monorepo
                       THEN [cStack EXCEPT ![Len(cStack)].pos = 1]
                       ELSE Pop
  /\ UNCHANGED <<vDisk, vDisk0, vArg, vCfg, vRun, vPhase, vExit, targetVersion, vIdx,
                 versionChanges, vLog, vWritten,
                 bvars, fvars, pvars, svars>>

\* One iteration of packages.forEach inside a call: a package that declares
\* the call's package gets its own call; past the last one the call returns.
CollectScan ==
  /\ vPhase = "collect"
  /\ cStack # <<>>
  /\ Top.pos > 0
  /\ IF Top.pos > Len(VPackages)
     THEN cStack' = Pop
     ELSE LET depPackageDir == VPackages[Top.pos]
              moved == [cStack EXCEPT ![Len(cStack)].pos = @ + 1]
          IN cStack' = IF hasDepOnPackage(depPackageDir, Top.dir)
                       THEN Append(moved, [dir |-> depPackageDir, pos |-> 0])
                       ELSE moved
  /\ UNCHANGED <<vDisk, vDisk0, vArg, vCfg, vRun, vPhase, vExit, targetVersion,
                 packagesToUpdate, vIdx, versionChanges, vLog, vWritten,
                 processedPackages, cRuns,
                 bvars, fvars, pvars, svars>>

NextCollect ==
  \/ CollectNextTarget
  \/ CollectEnter
  \/ CollectScan

SpecCollect ==
  /\ InitCollect
  /\ [][NextCollect]_vars
  /\ WF_vars(CollectNextTarget)
  /\ WF_vars(CollectEnter)
  /\ WF_vars(CollectScan)

(***************************************************************************)
(* core/version: calculateTargetVersion and compareVersions on their own   *)
(*                                                                         *)
(* A version string is drawn, a keyword and a tag are drawn and            *)
(* calculateTargetVersion is applied to it the way version() applies it to *)
(* the root version; a second string is drawn and compareVersions is       *)
(* applied to the pair.                                                    *)
(***************************************************************************)

\* Largest major and minor number of the version strings drawn.
MaxMajor == 1

\* Patch numbers of the version strings drawn: one digit, the last one-digit
\* number, two digits.
PatchNums == {0, 9, 10}

TagBeta == <<"b", "e", "t", "a">>

\* The prerelease parts drawn; <<>> is a version without one.
Prereleases ==
  {<<>>,
   DefaultTag,
   DefaultTag \o <<".", "0">>,
   DefaultTag \o <<".", "9">>,
   DefaultTag \o <<".", "1", "0">>,
   DefaultTag \o <<".">> \o TagBeta,
   DefaultTag \o <<"b", "e", "t", ".", "1">>,
   TagBeta \o <<".", "1">>,
   <<"1", "a">>,
   <<"2">>,
   <<"1", "0">>,
   <<"-", "a">>}

\* The build metadata parts drawn; <<>> is a version without one.
Builds == {<<>>, Tail(BuildB)}

\* `${core}-${prerelease}+${build}` with the absent parts left out.
VersionString(core, prerelease, build) ==
  core \o (IF prerelease = <<>> THEN <<>> ELSE <<"-">> \o prerelease)
       \o (IF build = <<>> THEN <<>> ELSE <<"+">> \o build)

\* The version strings drawn.
FunctionVersions ==
  {VersionString(Triple(M, m, p), pre, b) :
     M \in 0..MaxMajor, m \in 0..MaxMajor, p \in PatchNums,
     pre \in Prereleases, b \in Builds}

\* The values of options.tag drawn: not given, and beta.
FunctionTags == {Absent, TagBeta}

\* options.tag || 'alpha'
tagOrDefault(tag) == IF tag = Absent \/ tag = <<>> THEN DefaultTag ELSE tag

InitFunctions ==
  /\ BuildIdle
  /\ VersionIdle
  /\ PublishIdle
  /\ SessionIdle
  /\ CollectIdle
  /\ fCur \in FunctionVersions
  /\ fOther = <<>>
  /\ fThird = <<>>
  /\ fOrder = NoOrder
  /\ fArg = <<>>
  /\ fTag = <<>>
  /\ fPhase = "input"
  /\ fTarget = <<>>
  /\ fCmp = 0

\* version() with a keyword: parseVersion of the current version, then
\* calculateTargetVersion.
Calculate ==
  /\ fPhase = "input"
  /\ parseVersion(fCur).valid
  /\ \E arg \in Keywords, tag \in FunctionTags :
       /\ fArg' = arg
       /\ fTag' = tag
       /\ fTarget' = calculateTargetVersion(arg, parseVersion(fCur), tagOrDefault(tag))
  /\ fPhase' = "calculated"
  /\ UNCHANGED <<fCur, fOther, fThird, fCmp, fOrder, bvars, vvars, pvars, svars, cvars>>

\* compareVersions(version1, version2)
Compare ==
  /\ fPhase = "input"
  /\ \E other \in FunctionVersions :
       /\ fOther' = other
       /\ fCmp' = compareVersions(fCur, other)
  /\ fPhase' = "compared"
  /\ UNCHANGED <<fCur, fThird, fArg, fTag, fTarget, fOrder, bvars, vvars, pvars, svars, cvars>>

NextFunctions ==
  \/ Calculate
  \/ Compare

SpecFunctions == InitFunctions /\ [][NextFunctions]_vars

(***************************************************************************)
(* compareVersions along a chain of three versions                         *)
(***************************************************************************)

\* The prerelease parts drawn for the chain: letters, digits, digits followed
\* by a letter, and identifiers that begin with a hyphen.
OrderPrereleases ==
  {<<>>,
   DefaultTag,
   DefaultTag \o <<".", "0">>,
   DefaultTag \o <<".", "9">>,
   DefaultTag \o <<".", "1", "0">>,
   TagBeta \o <<".", "1">>,
   <<"0">>,
   <<"1">>,
   <<"1", "a">>,
   <<"2">>,
   <<"1", "0">>,
   <<"-", "a">>,
   <<"-", "0">>}

\* The version strings drawn for the chain.
OrderVersions ==
  {VersionString(Triple(1, 0, p), pre, <<>>) : p \in {0, 9}, pre \in OrderPrereleases}

InitCompare ==
  /\ BuildIdle
  /\ VersionIdle
  /\ PublishIdle
  /\ SessionIdle
  /\ CollectIdle
  /\ fCur \in OrderVersions
  /\ fOther = <<>>
  /\ fThird = <<>>
  /\ fArg = <<>>
  /\ fTag = <<>>
  /\ fPhase = "input"
  /\ fTarget = <<>>
  /\ fCmp = 0
  /\ fOrder = NoOrder

\* compareVersions(version1, version2), compareVersions(version2, version1),
\* compareVersions(version2, version3) and compareVersions(version1, version3)
CompareChain ==
  /\ fPhase = "input"
  /\ \E other \in OrderVersions, third \in OrderVersions :
       /\ fOther' = other
       /\ fThird' = third
       /\ fCmp' = compareVersions(fCur, other)
       /\ fOrder' = [back |-> compareVersions(other, fCur),
                     next |-> compareVersions(other, third),
                     far |-> compareVersions(fCur, third)]
  /\ fPhase' = "chained"
  /\ UNCHANGED <<fCur, fArg, fTag, fTarget, bvars, vvars, pvars, svars, cvars>>

NextCompare == CompareChain

SpecCompare == InitCompare /\ [][NextCompare]_vars

(***************************************************************************)
(* core/publish: the publish command                                       *)
(*                                                                         *)
(* A monorepo without build.main: the packages are the three directories   *)
(* under packagesDir, sorted by sortPackagesByDependencies over their      *)
(* `dependencies` (pkgDeps).  The registry is what `npm view <name>        *)
(* version` prints for each package and whether `npm publish` succeeds.    *)
(***************************************************************************)

\* The `dependencies` shapes of the published workspace: none, a chain, an
\* edge against the directory order, an edge towards a package with more
\* dependencies, a cycle.
PublishDeps ==
  {[a |-> {}, b |-> {}, c |-> {}],
   [a |-> {}, b |-> {"a"}, c |-> {"b"}],
   [a |-> {"b"}, b |-> {}, c |-> {}],
   [a |-> {}, b |-> {"c"}, c |-> {"a", Ghost}],
   [a |-> {"b"}, b |-> {"a"}, c |-> {}]}

\* The manifest versions of the published workspace.
PublishVersions == {Triple(1, 0, 0), Triple(1, 0, 1)}

\* A --package value that names no package of the workspace.
Unknown == "zz"

\* targetPackages of publish()
publishTargets(sorted) ==
  SelectSeq(sorted, LAMBDA d : pCfg.package = None \/ d = pCfg.package)

\* The loop publishing every package whatever its version.
versionDiffersNever(dir) == FALSE

\* if (!config.package && pkgInfo.version !== rootVersion) continue
versionDiffers(dir) == pCfg.package = None /\ pVersion[dir] # pRootVersion

\* publishPackage: the already-published check, then `npm publish`.
\* sent tells whether `npm publish` was run.
publishPackage(dir) ==
  IF pRegistry[dir] = pVersion[dir]
  THEN [sent |-> FALSE, success |-> TRUE]
  ELSE [sent |-> TRUE, success |-> pPublishOk[dir]]

\* A failed publish ending the process whatever the options.
failureExitsAlways == TRUE

\* if (config.package) process.exit(1), after a failed publish
failureExits == pCfg.package # None

\* The closing log line and the exit code.
publishSummary ==
  IF pFailed THEN [line |-> "errors", exit |-> 1]
  ELSE IF publishedCount = 0 THEN [line |-> "none", exit |-> 0]
  ELSE [line |-> "success", exit |-> 0]

InitPublish ==
  /\ pkgDeps \in PublishDeps
  /\ outcome = <<>>
  /\ cfg = None
  /\ phase = "idle"
  /\ packages = <<>>
  /\ dependencyGraph = <<>>
  /\ status = <<>>
  /\ builtPackages = {}
  /\ failed = FALSE
  /\ builtCount = 0
  /\ exitCode = None
  /\ errorPkg = None
  /\ VersionIdle
  /\ FunctionsIdle
  /\ SessionIdle
  /\ CollectIdle
  /\ pVersion \in [Pkgs -> PublishVersions]
  /\ pRootVersion \in PublishVersions
  /\ pRegistry \in [Pkgs -> {Absent, Triple(1, 0, 0)}]
  /\ pPublishOk \in [Pkgs -> BOOLEAN]
  /\ pCfg \in [package : {None, "b", Unknown}]
  /\ pPhase = "start"
  /\ pTargets = <<>>
  /\ pIdx = 0
  /\ publishedCount = 0
  /\ pFailed = FALSE
  /\ pExit = None
  /\ pAttempted = <<>>
  /\ pSent = <<>>
  /\ pSummary = None

\* publish() up to the loop: the sort (whose throw the CLI's catch turns
\* into exit 1), the --package filter, the no-match exit.
PublishStart ==
  /\ pPhase = "start"
  /\ LET r == sortPackagesByDependencies(Discovered)
         targets == publishTargets(r.sorted)
     IN IF r.err # None
        THEN /\ pPhase' = "done"
             /\ pExit' = 1
             /\ pSummary' = "circular"
             /\ UNCHANGED <<pTargets, pIdx>>
        ELSE IF targets = <<>>
        THEN /\ pPhase' = "done"
             /\ pExit' = 1
             /\ pSummary' = "noMatch"
             /\ UNCHANGED <<pTargets, pIdx>>
        ELSE /\ pTargets' = targets
             /\ pIdx' = 1
             /\ pPhase' = "loop"
             /\ UNCHANGED <<pExit, pSummary>>
  /\ UNCHANGED <<pVersion, pRootVersion, pRegistry, pPublishOk, pCfg,
                 publishedCount, pFailed, pAttempted, pSent,
                 bvars, vvars, fvars, svars, cvars>>

\* One iteration of the for loop over targetPackages.
PublishOne ==
  /\ pPhase = "loop"
  /\ LET dir == pTargets[pIdx]
         res == publishPackage(dir)
         last == pIdx = Len(pTargets)
         advance == /\ pIdx' = IF last THEN pIdx ELSE pIdx + 1
                    /\ pPhase' = IF last THEN "summary" ELSE "loop"
                    /\ UNCHANGED pExit
     IN IF versionDiffers(dir)
        THEN /\ advance
             /\ UNCHANGED <<publishedCount, pFailed, pAttempted, pSent>>
        ELSE /\ pAttempted' = Append(pAttempted, dir)
             /\ pSent' = IF res.sent THEN Append(pSent, dir) ELSE pSent
             /\ IF res.success
                THEN /\ publishedCount' = publishedCount + 1
                     /\ UNCHANGED pFailed
                     /\ advance
                ELSE /\ pFailed' = TRUE
                     /\ UNCHANGED publishedCount
                     /\ IF failureExits
                        THEN /\ pPhase' = "done"
                             /\ pExit' = 1
                             /\ UNCHANGED pIdx
                        ELSE advance
  /\ UNCHANGED <<pVersion, pRootVersion, pRegistry, pPublishOk, pCfg, pTargets,
                 pSummary, bvars, vvars, fvars, svars, cvars>>

\* After the loop: the closing log line, process.exit(1) when a publish
\* failed.
PublishSummary ==
  /\ pPhase = "summary"
  /\ pSummary' = publishSummary.line
  /\ pExit' = publishSummary.exit
  /\ pPhase' = "done"
  /\ UNCHANGED <<pVersion, pRootVersion, pRegistry, pPublishOk, pCfg, pTargets,
                 pIdx, publishedCount, pFailed, pAttempted, pSent,
                 bvars, vvars, fvars, svars, cvars>>

NextPublish ==
  \/ PublishStart
  \/ PublishOne
  \/ PublishSummary

SpecPublish == InitPublish /\ [][NextPublish]_vars

(***************************************************************************)
(* One process calling version() and then publish(): packageInfoCache      *)
(***************************************************************************)

\* publish()'s packages of a monorepo whose root is not built: the
\* directories of packagesDir, which declare no dependencies here, so that
\* sortPackagesByDependencies leaves their order.
SessionPublishDirs == <<"a", "b">>

\* The versions version() is asked to set.
SessionTargets == {Triple(1, 0, 1), Triple(1, 0, 2)}

\* getPackageInfo(pkgPath).version: the cached manifest when the map has the
\* path, else the manifest read from disk.
getPackageInfo(p) ==
  IF packageInfoCache[p] # Absent THEN packageInfoCache[p] ELSE diskVersion[p]

\* packageInfoCache once getPackageInfo has been called for every path of S.
CacheAfter(S) ==
  [p \in VPkgs |-> IF p \in S THEN getPackageInfo(p) ELSE packageInfoCache[p]]

InitSession ==
  /\ diskVersion \in [VPkgs -> PublishVersions]
  /\ packageInfoCache = [p \in VPkgs |-> Absent]
  /\ sPackage \in {None, "a"}
  /\ sTarget \in SessionTargets
  /\ sUpdate = <<>>
  /\ sPhase = "version"
  /\ sIdx = 0
  /\ sWritten = {}
  /\ sRead = [p \in VPkgs |-> Absent]
  /\ sSkipped = {}
  /\ BuildIdle
  /\ VersionIdle
  /\ FunctionsIdle
  /\ PublishIdle
  /\ CollectIdle

\* version() up to the update pass: getConfig reads the root through
\* getPackageInfo, the --package filter reads every package through it, and
\* collectDependentPackages gathers the targets and their dependents.
SessionVersionStart ==
  /\ sPhase = "version"
  /\ packageInfoCache' = CacheAfter(IF sPackage # None THEN VPkgs ELSE {"root"})
  /\ sUpdate' \in (IF sPackage = None THEN {AllPackageDirs}
                   ELSE {<<"a">>, <<"a", "b">>})
  /\ sIdx' = 1
  /\ sPhase' = "update"
  /\ UNCHANGED <<diskVersion, sPackage, sTarget, sWritten, sRead, sSkipped,
                 bvars, vvars, fvars, pvars, cvars>>

\* One iteration of packagesToUpdate.forEach: the manifest is read with
\* fs.readFileSync and, unless it already holds the target, written with
\* fs.writeFileSync.  packageInfoCache is not touched.
SessionVersionWrite ==
  /\ sPhase = "update"
  /\ LET p == sUpdate[sIdx]
         last == sIdx = Len(sUpdate)
     IN /\ IF diskVersion[p] = sTarget
           THEN UNCHANGED <<diskVersion, sWritten>>
           ELSE /\ diskVersion' = [diskVersion EXCEPT ![p] = sTarget]
                /\ sWritten' = sWritten \cup {p}
        /\ sIdx' = IF last THEN 0 ELSE sIdx + 1
        /\ sPhase' = IF last THEN "publish" ELSE "update"
  /\ UNCHANGED <<packageInfoCache, sPackage, sTarget, sUpdate, sRead, sSkipped,
                 bvars, vvars, fvars, pvars, cvars>>

\* publish() up to its loop: getConfig and sortPackagesByDependencies read
\* the root and every package through getPackageInfo.
SessionPublishSort ==
  /\ sPhase = "publish"
  /\ packageInfoCache' = CacheAfter({"root"} \cup SeqSet(SessionPublishDirs))
  /\ sIdx' = 1
  /\ sPhase' = "loop"
  /\ UNCHANGED <<diskVersion, sPackage, sTarget, sUpdate, sWritten, sRead, sSkipped,
                 bvars, vvars, fvars, pvars, cvars>>

\* One iteration of publish()'s loop up to its version check: pkgInfo comes
\* from getPackageInfo, rootVersion from the root manifest on disk.
SessionPublishRead ==
  /\ sPhase = "loop"
  /\ LET p == SessionPublishDirs[sIdx]
         last == sIdx = Len(SessionPublishDirs)
     IN /\ sRead' = [sRead EXCEPT ![p] = getPackageInfo(p)]
        /\ sSkipped' = IF getPackageInfo(p) # diskVersion["root"]
                       THEN sSkipped \cup {p} ELSE sSkipped
        /\ sIdx' = IF last THEN 0 ELSE sIdx + 1
        /\ sPhase' = IF last THEN "done" ELSE "loop"
  /\ UNCHANGED <<diskVersion, packageInfoCache, sPackage, sTarget, sUpdate, sWritten,
                 bvars, vvars, fvars, pvars, cvars>>

NextSession ==
  \/ SessionVersionStart
  \/ SessionVersionWrite
  \/ SessionPublishSort
  \/ SessionPublishRead

SpecSession == InitSession /\ [][NextSession]_vars

(***************************************************************************)
(* Properties of the build command                                         *)
(***************************************************************************)

\* The internal `dependencies` edges of the workspace, and the packages that
\* lie on a cycle of them (reachable from themselves in one step or more).
InternalDeps(p) == pkgDeps[p] \cap Pkgs

RECURSIVE ReachIn(_, _)
ReachIn(S, n) ==
  IF n = 0 THEN S
  ELSE ReachIn(S \cup UNION {InternalDeps(q) : q \in S}, n - 1)

OnCycle == {p \in Pkgs : p \in ReachIn(InternalDeps(p), Cardinality(Pkgs))}

BuildAllReturned == phase = "done" /\ errorPkg = None

\* C1: in dependency-ordered mode the compile of a package never starts
\* before every workspace package it lists in `dependencies` is in the
\* built set.
C1_StartsAfterDependencies ==
  [][\A p \in Pkgs :
       (~FlatMode /\ status[p] # "building" /\ status'[p] = "building")
         => InternalDeps(p) \subseteq builtPackages]_vars

\* C2: in dependency-ordered mode, once the failed flag is set, a package
\* still waiting on its dependencies never starts compiling.
C2_NoStartAfterFailure ==
  [][\A p \in Pkgs :
       (failed /\ status[p] = "waiting") => status'[p] # "building"]_vars

\* C3: when the internal `dependencies` edges contain a cycle, the build
\* command ends with the circular-dependency error naming a package on a
\* cycle, exit code 1, and no compile was started.
C3_CycleIsFatal ==
  (OnCycle # {} /\ phase # "start")
    => /\ phase = "done"
       /\ exitCode = 1
       /\ errorPkg \in OnCycle
       /\ \A p \in Pkgs : status[p] = "idle"

\* C3 witness: the error was raised for a cycle that the first package does
\* not reach (the first package has no dependencies at all).
C3_Witness ==
  /\ phase = "done"
  /\ errorPkg \in OnCycle
  /\ pkgDeps[Discovered[1]] = {}

\* C4: once buildAll has concluded, the exit code is 0 exactly when no
\* dispatched build returned failure, and non-zero when one did.
C4_ExitReflectsFailures ==
  BuildAllReturned
    => /\ exitCode = 0 <=> (\A p \in Pkgs : status[p] # "failed")
       /\ (\E p \in Pkgs : status[p] = "failed") => exitCode = 1

\* C4 witness: a concluded run in which one package failed and another
\* succeeded, ending with exit code 1.
C4_Witness ==
  /\ BuildAllReturned
  /\ exitCode = 1
  /\ \E p, q \in Pkgs : status[p] = "failed" /\ status[q] = "success"

\* C5: the run concludes only when every dispatched build has reached
\* success or failed, and a build that has started only ever moves to
\* success or failed (it is never dropped because a sibling failed).
C5_AwaitsEveryBuild ==
  [][/\ (phase' = "done" /\ errorPkg' = None)
          => \A p \in Pkgs :
               \/ status'[p] \in {"success", "failed"}
               \/ (status'[p] = "idle" /\ cfg.package \notin {None, p})
     /\ \A p \in Pkgs :
          status[p] = "building" => status'[p] \in {"building", "success", "failed"}
    ]_vars

\* C5 witness: a concluded ordered run in which a package failed and a
\* sibling still reached success.
C5_Witness ==
  /\ BuildAllReturned
  /\ ~FlatMode
  /\ failed
  /\ \E p \in Pkgs : status[p] = "success"

\* C6: in flat mode every eligible package is compiling right after the
\* dispatch, whatever it depends on; each compile ends with its own outcome
\* whatever happened to the others; and the run succeeds exactly when every
\* eligible compile succeeded.
C6_FlatModeIndependent ==
  [][FlatMode =>
       /\ (phase = "sorted" /\ phase' = "running")
            => \A p \in Pkgs :
                 (cfg.package \in {None, p}) => status'[p] = "building"
       /\ \A p \in Pkgs :
            status[p] = "building"
              => status'[p] \in {"building",
                                 IF outcome[p] THEN "success" ELSE "failed"}
       /\ (phase' = "done" /\ errorPkg' = None)
            => (exitCode' = 0
                  <=> \A p \in Pkgs : (cfg.package \in {None, p}) => outcome[p])
    ]_vars

\* C6 witness: a concluded flat run over all packages where a package with
\* an internal dependency succeeded although that dependency failed.
C6_Witness ==
  /\ BuildAllReturned
  /\ FlatMode
  /\ cfg.package = None
  /\ \E p \in Pkgs : \E d \in InternalDeps(p) :
       status[p] = "success" /\ status[d] = "failed"

(***************************************************************************)
(* Properties of the version command                                       *)
(***************************************************************************)

\* The packages the command works on, and those it targets.
Workspace == SeqSet(VPackages)

IsTarget(p) == p \in Workspace /\ (vCfg.package = None \/ p = vCfg.package)

\* The run went through both passes and ended normally.
RunCompleted == vPhase = "done" /\ vExit = 0

VersionChanged(p) == vDisk[p].version # vDisk0[p].version

\* The leading ^ or ~ of a range as it was declared, or nothing.
OrigPrefix(range) ==
  IF range # <<>> /\ range[1] \in {"^", "~"} THEN <<range[1]>> ELSE <<>>

\* p declared, in the initial workspace, a dependency on n.
Declared(p, n) == \E f \in FieldSet : vDisk0[p].deps[f][n] # Absent

\* The targets and everything that reaches a target through declarations.
RECURSIVE DependentsOf(_, _)
DependentsOf(S, k) ==
  IF k = 0 THEN S
  ELSE DependentsOf(S \cup {q \in Workspace : \E n \in S : Declared(q, n)}, k - 1)

DependentsClosure == DependentsOf({p \in VPkgs : IsTarget(p)}, Cardinality(VPkgs))

\* C7 as stated: when a targeted package A changed version and another
\* package B declared a range on A, B's range on A ends as A's new version
\* behind B's original prefix, and B's own version is unchanged.
C7_DependentVersionUntouched ==
  RunCompleted =>
    \A A \in Workspace, B \in Workspace, f \in FieldSet :
      (A # B /\ IsTarget(A) /\ VersionChanged(A) /\ vDisk0[B].deps[f][A] # Absent)
        => /\ vDisk[B].deps[f][A] = OrigPrefix(vDisk0[B].deps[f][A]) \o vDisk[A].version
           /\ vDisk[B].version = vDisk0[B].version

\* C7 amended: B's range on A ends as A's new version behind B's original
\* prefix; B's own version is not left alone: unless its declared range is
\* the empty string, B is in the update set and its version ends as the
\* target version, or stays as it was when compareVersions rates it equal to
\* the target.
C7_DependentFollowsTarget ==
  RunCompleted =>
    \A A \in Workspace, B \in Workspace, f \in FieldSet :
      (A # B /\ IsTarget(A) /\ VersionChanged(A) /\ vDisk0[B].deps[f][A] # Absent)
        => /\ vDisk[B].deps[f][A] = OrigPrefix(vDisk0[B].deps[f][A]) \o vDisk[A].version
           /\ vDisk0[B].deps[f][A] # <<>>
                => /\ B \in SeqSet(packagesToUpdate)
                   /\ \/ vDisk[B].version = targetVersion
                      \/ /\ vDisk[B].version = vDisk0[B].version
                         /\ compareVersions(targetVersion, vDisk0[B].version) = 0

\* C7 witness: only a was targeted and changed; b, declaring ^1.0.0 on a,
\* ends with ^<a's new version> and with its own version rewritten too.
C7_Witness ==
  /\ RunCompleted
  /\ vCfg.package = "a"
  /\ VersionChanged("a")
  /\ vDisk0["b"].deps["dependencies"]["a"] = <<"^">> \o Triple(1, 0, 0)
  /\ vDisk["b"].deps["dependencies"]["a"] = <<"^">> \o vDisk["a"].version
  /\ VersionChanged("b")
  /\ vDisk["b"].version = targetVersion

\* C8: the update set is exactly the targeted packages plus every workspace
\* package that declares, directly or through a chain of declarations in
\* dependencies, peerDependencies or devDependencies, a dependency on one.
C8_UpdateSetIsClosure ==
  vPhase # "start" => SeqSet(packagesToUpdate) = DependentsClosure

\* C9: after a run, every dependency entry of every workspace package that
\* names a package whose version changed is that package's new version
\* behind the entry's original ^ or ~ (nothing when it had none).
C9_EveryRangeFollows ==
  RunCompleted =>
    \A p \in Workspace, n \in VPkgs, f \in FieldSet :
      (vDisk0[p].deps[f][n] # Absent /\ VersionChanged(n))
        => vDisk[p].deps[f][n] = OrigPrefix(vDisk0[p].deps[f][n]) \o vDisk[n].version

C12_InvalidArgumentRejected ==
  (vPhase # "idle" /\ vArg \notin Keywords /\ ~isValidSemVer(vArg))
    => /\ vDisk = vDisk0
       /\ vWritten = {}
       /\ vPhase = "done" => vExit = 1

(***************************************************************************)
(* Properties of calculateTargetVersion and compareVersions                *)
(***************************************************************************)

\* The version calculateTargetVersion was applied to, parsed, and the tag in
\* force.
Current == parseVersion(fCur)

TagInForce == IF fTag = Absent THEN DefaultTag ELSE fTag

\* `-t.0` for the tag in force.
FreshTag == <<"-">> \o TagInForce \o <<".", "0">>

EndsWith(s, t) == Len(s) >= Len(t) /\ SubSeq(s, Len(s) - Len(t) + 1, Len(s)) = t

\* C13: on a valid current version M.m.p[-pre], major gives (M+1).0.0,
\* minor gives M.(m+1).0, patch gives M.m.p when a prerelease is present and
\* M.m.(p+1) otherwise, and pre-major, pre-minor, pre-patch give
\* (M+1).0.0-t.0, M.(m+1).0-t.0, M.m.(p+1)-t.0 whatever the prerelease.
C13_KeywordBumps ==
  (fPhase = "calculated" /\ Current.build = <<>>)
    => /\ fArg = KwMajor => fTarget = Triple(Current.major + 1, 0, 0)
       /\ fArg = KwMinor => fTarget = Triple(Current.major, Current.minor + 1, 0)
       /\ fArg = KwPatch =>
            fTarget = IF Current.prerelease # <<>>
                      THEN Triple(Current.major, Current.minor, Current.patch)
                      ELSE Triple(Current.major, Current.minor, Current.patch + 1)
       /\ fArg = KwPreMajor => fTarget = Triple(Current.major + 1, 0, 0) \o FreshTag
       /\ fArg = KwPreMinor
            => fTarget = Triple(Current.major, Current.minor + 1, 0) \o FreshTag
       /\ fArg = KwPrePatch
            => fTarget = Triple(Current.major, Current.minor, Current.patch + 1) \o FreshTag

\* C13 witness: patch applied to 1.0.9-alpha.0 gave 1.0.9.
C13_Witness ==
  /\ fPhase = "calculated"
  /\ fArg = KwPatch
  /\ fCur = Triple(1, 0, 9) \o <<"-">> \o DefaultTag \o <<".", "0">>
  /\ fTarget = Triple(1, 0, 9)

\* C14: for `pre` with tag t: without a prerelease the result is
\* M.m.(p+1)-t.0; when the first identifier of the prerelease is t the
\* result keeps M.m.p and the prerelease with its trailing identifier
\* incremented if numeric, or with .0 appended if not; when the first
\* identifier is anything else the result is M.m.p-t.0.
C14_PreBump ==
  (fPhase = "calculated" /\ fArg = KwPre /\ Current.build = <<>>)
    => LET parts == Split(Current.prerelease, ".")
           lastPart == parts[Len(parts)]
           core == Triple(Current.major, Current.minor, Current.patch)
       IN fTarget =
            IF Current.prerelease = <<>>
            THEN Triple(Current.major, Current.minor, Current.patch + 1) \o FreshTag
            ELSE IF parts[1] = TagInForce
            THEN core \o <<"-">> \o
                   (IF IsDigits(lastPart)
                    THEN Join([parts EXCEPT ![Len(parts)] =
                                 toString(DigitsValue(lastPart) + 1)], ".")
                    ELSE Join(Append(parts, <<"0">>), "."))
            ELSE core \o FreshTag

C16_BuildMetadataKept ==
  fPhase = "calculated"
    => IF Current.build # <<>>
       THEN /\ EndsWith(fTarget, <<"+">> \o Current.build)
            /\ parseVersion(fTarget).build = Current.build
       ELSE \A i \in 1..Len(fTarget) : fTarget[i] # "+"

\* C16 witness: pre-minor applied to 1.0.9-beta.1+b gave 1.1.0-alpha.0+b.
C16_Witness ==
  /\ fPhase = "calculated"
  /\ fArg = KwPreMinor
  /\ fTag = Absent
  /\ fCur = VersionString(Triple(1, 0, 9), TagBeta \o <<".", "1">>, Tail(BuildB))
  /\ fTarget = VersionString(Triple(1, 1, 0), DefaultTag \o <<".", "0">>, Tail(BuildB))

Sign(n) == IF n < 0 THEN -1 ELSE IF n > 0 THEN 1 ELSE 0

\* Precedence of two prerelease identifiers: numeric ones by value,
\* alphanumeric ones by character order, a numeric one below an
\* alphanumeric one.
IdentPrecedence(a, b) ==
  IF IsDigits(a) /\ IsDigits(b) THEN Sign(DigitsValue(a) - DigitsValue(b))
  ELSE IF IsDigits(a) THEN -1
  ELSE IF IsDigits(b) THEN 1
  ELSE IF StrLess(a, b) THEN -1
  ELSE IF StrLess(b, a) THEN 1
  ELSE 0

\* Precedence of two identifier lists, left to right; a strict prefix is
\* the lesser.
RECURSIVE ListPrecedence(_, _)
ListPrecedence(l1, l2) ==
  IF l1 = <<>> /\ l2 = <<>> THEN 0
  ELSE IF l1 = <<>> THEN -1
  ELSE IF l2 = <<>> THEN 1
  ELSE IF IdentPrecedence(Head(l1), Head(l2)) # 0
       THEN IdentPrecedence(Head(l1), Head(l2))
       ELSE ListPrecedence(Tail(l1), Tail(l2))

\* Semantic-versioning precedence of two valid versions: -1, 0 or 1.
Precedence(version1, version2) ==
  LET v1 == parseVersion(version1)
      v2 == parseVersion(version2)
  IN IF v1.major # v2.major THEN Sign(v1.major - v2.major)
     ELSE IF v1.minor # v2.minor THEN Sign(v1.minor - v2.minor)
     ELSE IF v1.patch # v2.patch THEN Sign(v1.patch - v2.patch)
     ELSE IF v1.prerelease = <<>> /\ v2.prerelease = <<>> THEN 0
     ELSE IF v1.prerelease = <<>> THEN 1
     ELSE IF v2.prerelease = <<>> THEN -1
     ELSE ListPrecedence(Split(v1.prerelease, "."), Split(v2.prerelease, "."))

\* C17: the sign of compareVersions on two valid versions is their
\* semantic-versioning precedence: major, minor, patch by number; a release
\* above its prereleases; prerelease identifiers left to right, numeric ones
\* by number, alphanumeric ones by character order, numeric below
\* alphanumeric, a strict prefix below the longer list.
C17_ComparesByPrecedence ==
  (fPhase = "compared" /\ parseVersion(fCur).valid /\ parseVersion(fOther).valid)
    => Sign(fCmp) = Precedence(fCur, fOther)

(***************************************************************************)
(* Properties of the publish command                                       *)
(***************************************************************************)

\* The selected packages, and those of them `npm publish` is due for.
Selected == SeqSet(pTargets)

AlreadyPublished(p) == pRegistry[p] = pVersion[p]

RootVersioned(p) == pVersion[p] = pRootVersion

\* The loop ran to its end and the closing line was logged.
PublishConcluded == pPhase = "done" /\ pSummary \in {"errors", "none", "success"}

\* C18: an already published package is skipped and not counted: when every
\* selected package is already published or (without --package) differs
\* from the root version, the run sends nothing, counts nothing and closes
\* with 'No packages published' and exit code 0.
C18_SkippedIsNotCounted ==
  (/\ PublishConcluded
   /\ \A p \in Selected :
        AlreadyPublished(p) \/ (pCfg.package = None /\ ~RootVersioned(p)))
    => /\ pSent = <<>>
       /\ publishedCount = 0
       /\ pSummary = "none"
       /\ pExit = 0

\* The loop is over: it ran to its end, or a failed publish ended the run.
PublishLoopOver == pPhase \in {"summary", "done"} /\ pTargets # <<>>

\* C19: once the loop is over, the packages `npm publish` was run for are,
\* without --package, exactly the selected packages at the root version
\* that are not already published, and with --package the named package
\* when it is not already published, whatever its version.
C19_SentExactlyTheDue ==
  PublishLoopOver
    => SeqSet(pSent) =
         {p \in Selected :
            /\ ~AlreadyPublished(p)
            /\ pCfg.package = None => RootVersioned(p)}

\* C19 witness: a run without --package that sent one package, skipped one
\* already published and skipped one that is off the root version and not
\* in the registry.
C19_Witness ==
  /\ PublishConcluded
  /\ pCfg.package = None
  /\ Len(pSent) = 1
  /\ \E p \in Selected : RootVersioned(p) /\ AlreadyPublished(p)
  /\ \E p \in Selected : ~RootVersioned(p) /\ ~AlreadyPublished(p)

\* C20: without --package a failed publish does not end the loop: the run
\* ends only at the closing line, with exit code 1, after publishPackage
\* was called for every selected package at the root version; with
\* --package the first failed publish ends the run at once with exit code 1.
C20_FailureContinuesOrExits ==
  [][/\ (pPhase = "loop" /\ pFailed')
          => IF pCfg.package = None
             THEN /\ pPhase' \in {"loop", "summary"}
                  /\ pPhase' = "summary"
                       => SeqSet(pAttempted') = {p \in Selected : RootVersioned(p)}
             ELSE pPhase' = "done" /\ pExit' = 1
     /\ (pPhase = "summary" /\ pFailed) => (pPhase' = "done" /\ pExit' = 1)
    ]_vars

\* C20 witness: a run without --package in which the first publish failed,
\* a later one was still sent, and the run closed with exit code 1.
C20_Witness ==
  /\ PublishConcluded
  /\ pCfg.package = None
  /\ pExit = 1
  /\ Len(pSent) >= 2
  /\ ~pPublishOk[pSent[1]]
  /\ pPublishOk[pSent[Len(pSent)]]

\* Position of a package in a sequence of packages, 0 when it is not there.
PositionIn(q, p) == IF \E i \in 1..Len(q) : q[i] = p
                    THEN CHOOSE i \in 1..Len(q) : q[i] = p
                    ELSE 0

\* C21: whenever publishPackage was called, in one run, for a package P and
\* for a package Q that P lists in its `dependencies`, the call for Q came
\* before the call for P.
C21_PublishInDependencyOrder ==
  \A P \in SeqSet(pAttempted), Q \in SeqSet(pAttempted) :
    Q \in pkgDeps[P] => PositionIn(pAttempted, Q) < PositionIn(pAttempted, P)

(***************************************************************************)
(* Properties of sortPackagesByDependencies (as build() applies it)        *)
(***************************************************************************)

\* The sort returned: `packages` holds what it returned.
SortReturned == phase \in {"sorted", "running", "done"} /\ packages # <<>>

\* Number of keys under the workspace scope a manifest declares in
\* `dependencies`.
DeclaredCount(p) == Cardinality(pkgDeps[p])

\* depth(n) = 1 + the largest depth among n's dependencies that are
\* workspace packages, 1 when there are none (acyclic workspaces only).
RECURSIVE DepthOf(_)
DepthOf(n) ==
  IF InternalDeps(n) = {} THEN 1
  ELSE 1 + CHOOSE d \in {DepthOf(q) : q \in InternalDeps(n)} :
             \A e \in {DepthOf(q) : q \in InternalDeps(n)} : e <= d

\* (count, depth) of x is not above that of y.
KeyNotAbove(x, y) ==
  \/ DeclaredCount(x) < DeclaredCount(y)
  \/ DeclaredCount(x) = DeclaredCount(y) /\ DepthOf(x) <= DepthOf(y)

KeyEqual(x, y) == DeclaredCount(x) = DeclaredCount(y) /\ DepthOf(x) = DepthOf(y)

C30_DependenciesAreWorkspacePackages ==
  phase \in {"sorted", "running", "done"}
    => \A p \in Pkgs :
         /\ SeqSet(getPackageDependencies(p)) = pkgDeps[p] \cap Pkgs
         /\ Len(getPackageDependencies(p)) = Cardinality(pkgDeps[p] \cap Pkgs)

(***************************************************************************)
(* Properties of packageInfoCache across version() and publish()           *)
(***************************************************************************)

\* C24: within one process, once version() has rewritten a package's
\* manifest, the version publish() reads for that package through
\* getPackageInfo to decide whether to skip it is the one now on disk.
C24_ReadsAfterWriteSeeDisk ==
  \A p \in sWritten : sRead[p] # Absent => sRead[p] = diskVersion[p]

(***************************************************************************)
(* Properties of buildAll's ordered mode: shared state and termination     *)
(***************************************************************************)

\* Ordered mode dispatched its tasks and every one of them has settled.
OrderedConcluded ==
  /\ ~FlatMode
  /\ phase = "done"
  /\ errorPkg = None
  /\ \A p \in Pkgs : status[p] \in {"success", "failed"}

\* The packages whose compile resolves.
Compiling == {p \in Pkgs : outcome[p]}

\* C25: in ordered mode, whatever the interleaving of the guard and build
\* tasks, the run ends with the built set and the failed flag that the
\* compile outcomes alone determine (the packages whose compile resolves;
\* failed exactly when some compile throws); and at every step the built set
\* only gains members and the failed flag only goes from false to true.
C25_SharedStateConverges ==
  /\ [](OrderedConcluded
          => /\ builtPackages = Compiling
             /\ failed = (Compiling # Pkgs))
  /\ [][/\ builtPackages \subseteq builtPackages'
        /\ failed => failed']_vars

\* An ordered run that ended with a failure, a built package and a
\* dependency edge between two packages.
C25_Witness ==
  /\ OrderedConcluded
  /\ failed
  /\ builtPackages # {}
  /\ \E p \in Pkgs : dependencyGraph[p] # {}

\* C26: when every compile call returns, an ordered-mode buildAll that was
\* handed the sorted packages of an acyclic workspace concludes, whatever
\* the compile outcomes: no guard polls forever.
C26_OrderedModeConcludes ==
  (phase = "sorted" /\ ~FlatMode) ~> (phase = "done" /\ exitCode \in {0, 1})

\* An ordered run that concluded although a package's dependency never
\* entered the built set: its guard was released by the failed flag.
C26_Witness ==
  /\ OrderedConcluded
  /\ exitCode = 1
  /\ \E p \in Pkgs : /\ dependencyGraph[p] \ builtPackages # {}
                     /\ status[p] \in {"success", "failed"}

\* buildAll's ordered mode has built its dependency graph.
GraphBuilt ==
  /\ ~FlatMode
  /\ phase \in {"running", "done"}
  /\ errorPkg = None

\* C27: the graph ordered mode schedules against has the edge P -> Q for
\* every two packages of the build set where P lists Q in `dependencies`,
\* wherever P and Q stand in the list handed to buildAll.
C27_GraphHasEveryDeclaredEdge ==
  GraphBuilt => \A P \in Pkgs, Q \in Pkgs : Q \in pkgDeps[P] => Q \in dependencyGraph[P]

(***************************************************************************)
(* Properties of the version command: the target of a keyword bump         *)
(***************************************************************************)

\* The keyword bump of p's own version as it was on disk when the command
\* started.
OwnBump(p) == calculateTargetVersion(vArg, parseVersion(vDisk0[p].version), DefaultTag)

\* C28: for a keyword bump, the version written to a targeted package is the
\* bump computed from that package's own on-disk version.
C28_BumpFromOwnVersion ==
  (RunCompleted /\ vArg \in Keywords)
    => \A p \in Workspace :
         (IsTarget(p) /\ p \in vWritten /\ parseVersion(vDisk0[p].version) # Null)
           => vDisk[p].version = OwnBump(p)

(***************************************************************************)
(* Properties of buildAll: the state of each package                       *)
(***************************************************************************)

\* The moves of one package's state: not yet dispatched or waiting behind
\* its guard, then building, then success or failed.
ForwardMoves ==
  {<<"idle", "waiting">>, <<"idle", "building">>, <<"waiting", "building">>,
   <<"building", "success">>, <<"building", "failed">>}

\* C29: every change of a package's build state is a move forward along
\* pending -> building -> success or failed.  So within one buildAll run the
\* compile of a package starts at most once, and a package that reached
\* success or failed is never built again.
C29_StateMovesForward ==
  [][\A p \in Pkgs : status'[p] # status[p]
                       => <<status[p], status'[p]>> \in ForwardMoves]_vars

\* An ordered run in which a package waited, was built and succeeded, while
\* another package failed.
C29_Witness ==
  /\ GraphBuilt
  /\ phase = "done"
  /\ \E p \in Pkgs, q \in Pkgs : /\ dependencyGraph[p] # {}
                                 /\ status[p] = "success"
                                 /\ status[q] = "failed"
                                 /\ q \notin dependencyGraph[p]

(***************************************************************************)
(* Properties of the version command: collection, frame, target            *)
(***************************************************************************)

\* The declarations of the initial workspace lead from p to q in at most k
\* steps.
RECURSIVE DeclaresWithin(_, _, _)
DeclaresWithin(p, q, k) ==
  IF k = 0 THEN FALSE
  ELSE \E n \in VPkgs : /\ Declared(p, n)
                        /\ (n = q \/ DeclaresWithin(n, q, k - 1))

OnDeclarationCycle(p) == DeclaresWithin(p, p, Cardinality(VPkgs))

\* C31: the collection of dependents comes to its end for every workspace,
\* whatever cycles its declarations form; no package is recorded by more
\* than one call and the update set holds each package at most once.
C31_CollectionTerminatesOnce ==
  /\ [](vPhase \in {"collect", "collected"}
          => /\ \A p \in VPkgs : cRuns[p] <= 1
             /\ Cardinality(SeqSet(packagesToUpdate)) = Len(packagesToUpdate))
  /\ (vPhase = "collect") ~> (vPhase = "collected")

\* A monorepo whose declarations form the cycle a <- b <- root <- a and
\* nothing else; the collection from a came to its end with the three.
C31_Witness ==
  /\ vPhase = "collected"
  /\ vCfg = [package |-> "a", monorepo |-> TRUE]
  /\ \A p \in VPkgs, n \in VPkgs :
       Declared(p, n) <=> <<p, n>> \in {<<"b", "a">>, <<"root", "b">>, <<"a", "root">>}
  /\ OnDeclarationCycle("a")
  /\ packagesToUpdate = <<"a", "b", "root">>

\* Manifests of packages outside the update set are never written.
OutsideUntouched ==
  \A p \in VPkgs \ SeqSet(packagesToUpdate) : p \notin vWritten /\ vDisk[p] = vDisk0[p]

\* A version field differs from the initial one only in the update set.
VersionFieldFramed ==
  \A p \in VPkgs : VersionChanged(p) => p \in SeqSet(packagesToUpdate)

\* A dependency entry differs from the initial one only when it names a
\* package whose version changed.
EntriesFramed ==
  \A p \in VPkgs, n \in VPkgs, f \in FieldSet :
    vDisk[p].deps[f][n] # vDisk0[p].deps[f][n] => VersionChanged(n)

\* C32: a version run changes nothing but the version field of packages of
\* the update set and the dependency entries that name a package whose
\* version changed; no manifest outside the update set is written.
C32_RunChangesOnlyItsFrame ==
  vPhase \in {"update", "rewrite", "done"}
    => OutsideUntouched /\ VersionFieldFramed /\ EntriesFramed

\* C33: after a run that completed without a fatal exit, every package of
\* the update set carries on disk the one target version of the run.
C33_UpdateSetCarriesTarget ==
  RunCompleted => \A p \in SeqSet(packagesToUpdate) : vDisk[p].version = targetVersion

\* C34: a second run of the version command with the same explicit version
\* and the same package selection writes no manifest and leaves the
\* workspace as the first run left it.
C34_SecondRunIsNoOp ==
  vRun = 2 => vWritten = {} /\ vDisk = vDisk0

\* The pre keyword applied to a prerelease that does not start with the tag:
\* the one bump that replaces the prerelease under the same core.
TagReset ==
  /\ fArg = KwPre
  /\ Current.prerelease # <<>>
  /\ ~StartsWith(Current.prerelease, TagInForce)

\* C35 as stated: every keyword bump of a valid version compares strictly
\* greater than the current version under compareVersions.
C35_EveryKeywordBumpRaises ==
  fPhase = "calculated" => compareVersions(fTarget, fCur) > 0

\* C35: a keyword bump of a valid version compares strictly greater than the
\* current version under compareVersions, except pre applied to a prerelease
\* that does not start with the tag: that bump keeps major.minor.patch and
\* replaces the prerelease by tag.0, whatever the precedence of the two.
C35_KeywordBumpRaises ==
  fPhase = "calculated"
    => /\ ~TagReset => compareVersions(fTarget, fCur) > 0
       /\ TagReset
            => /\ parseVersion(fTarget).major = Current.major
               /\ parseVersion(fTarget).minor = Current.minor
               /\ parseVersion(fTarget).patch = Current.patch
               /\ parseVersion(fTarget).prerelease = TagInForce \o <<".", "0">>

\* C35 witness: pre applied to 1.0.0-alpha.9 gave 1.0.0-alpha.10, which
\* compares above it.
C35_Witness ==
  /\ fPhase = "calculated"
  /\ fArg = KwPre
  /\ fTag = Absent
  /\ fCur = Triple(1, 0, 0) \o <<"-">> \o DefaultTag \o <<".", "9">>
  /\ fTarget = Triple(1, 0, 0) \o <<"-">> \o DefaultTag \o <<".", "1", "0">>
  /\ compareVersions(fTarget, fCur) > 0

\* Two valid versions with the same major.minor.patch and the same list of
\* prerelease identifiers.
SameVersion(version1, version2) ==
  LET v1 == parseVersion(version1)
      v2 == parseVersion(version2)
  IN /\ v1.major = v2.major
     /\ v1.minor = v2.minor
     /\ v1.patch = v2.patch
     /\ v1.prerelease = v2.prerelease

\* The sign of compareVersions(a, b) is the opposite of that of
\* compareVersions(b, a).
OrderAntisymmetric == Sign(fCmp) = 0 - Sign(fOrder.back)

\* compareVersions returns 0 only on versions with the same core and the
\* same prerelease identifiers.
OrderZeroOnlyWhenSame == fCmp = 0 => SameVersion(fCur, fOther)

\* Below-or-equal and strictly-below both carry along a chain.
OrderTransitive ==
  /\ (fCmp <= 0 /\ fOrder.next <= 0) => fOrder.far <= 0
  /\ (fCmp < 0 /\ fOrder.next < 0) => fOrder.far < 0

\* C36: compareVersions is a consistent order on valid version strings: the
\* sign of compareVersions(a, b) is the opposite of the sign of
\* compareVersions(b, a), the result is 0 only when a and b have the same
\* major.minor.patch and the same prerelease identifier list, and the
\* relation is transitive.
C36_ConsistentOrder ==
  fPhase = "chained"
    => /\ OrderAntisymmetric
       /\ OrderZeroOnlyWhenSame
       /\ OrderTransitive

\* Where a package stands in the list handed to buildAll.
Position(p) == CHOOSE i \in 1..Len(packages) : packages[i] = p

\* buildAll left through its own 'Circular dependency detected in packages'
\* exit: ordered mode concluded before any task was dispatched.
CircularExitInBuildAll ==
  /\ GraphBuilt
  /\ phase = "done"
  /\ \A p \in Pkgs : status[p] = "idle"

\* C37: every edge of the dependency graph built inside buildAll goes from a
\* package to a package that stands earlier in the list handed to buildAll,
\* so the wave analysis never finds an empty wave and buildAll's own
\* circular-dependency exit is never reached.
C37_GraphPointsBackwards ==
  GraphBuilt
    => /\ \A p \in Pkgs : \A d \in dependencyGraph[p] : Position(d) < Position(p)
       /\ ~WaveStuck(dependencyGraph, Pkgs)
       /\ ~CircularExitInBuildAll

\* C37 witness: ordered mode built a graph with a chain of two edges and
\* dispatched the tasks.
C37_Witness ==
  /\ GraphBuilt
  /\ phase = "running"
  /\ \E p \in Pkgs, q \in Pkgs, r \in Pkgs :
       /\ q \in dependencyGraph[p]
       /\ r \in dependencyGraph[q]

====
